---- MODULE Spec2Model ----
(***************************************************************************)
(* A model of the quest-data extraction pipeline of osrs-route-planner     *)
(* (scripts/parse-quest-helper.ts): the method-body locator, the call-     *)
(* pattern extractors, the literal-string reconstructor, the symbolic      *)
(* reference resolver, the record assembler and the batch orchestrator;    *)
(* of the wiki table parser (scripts/parse-wiki-ids.ts); and of the state  *)
(* of the map components and of the drag hook of the application.          *)
(*                                                                         *)
(* A Java source is a sequence of tokens.  A token is a record whose field *)
(* k is its kind; a token that carries a value has it in field v.  Indices *)
(* are the 0-based indices of the TypeScript code.                         *)
(***************************************************************************)
EXTENDS Integers, Sequences, FiniteSets, TLC

VARIABLES
    approved,    \* main: Object.entries of the parsed approved-quests.json
    toProcess,   \* main: the display names whose value is true
    idx,         \* main: 0-based position of the for-of loop in toProcess
    pc,          \* main: where the orchestrator is
    java,        \* main: the source text fetched for the current input
    data,        \* main: the QuestData record assembled for the current input
    phase,       \* per input of toProcess: its pipeline state
    log,         \* console output, one entry per console.log/warn/error call
    files,       \* the output directory: slug -> record written
    fetched,     \* the display names whose source was requested, in order
    fn,          \* pure-function harness: the function that was applied
    arg,         \* pure-function harness: its argument(s)
    ret,         \* pure-function harness: what it returned
    labelsView,  \* WorldMapLabels: its state hooks and what it renders
    mapView,     \* OSRSMap: its markers state, its handlers, the pending load
    draggable    \* useDraggable: position, offset, the window listeners

batchVars == <<approved, toProcess, idx, pc, java, data, phase, log, files, fetched>>
fnVars == <<fn, arg, ret>>
uiVars == <<labelsView, mapView, draggable>>
vars == <<approved, toProcess, idx, pc, java, data, phase, log, files, fetched, fn, arg, ret,
          labelsView, mapView, draggable>>

\* a component that is not mounted
NotMounted == [mounted |-> FALSE]
UiIdle ==
    /\ labelsView = NotMounted
    /\ mapView = NotMounted
    /\ draggable = NotMounted

(***************************************************************************)
(* JavaScript values                                                       *)
(***************************************************************************)
\* undefined, as a string no display text of the model equals
Undefined == "#undefined"
\* null result of extractMethodBody: a one-token sequence no source contains
Null == << [k |-> "#null"] >>
\* a thrown RangeError (maximum call stack size exceeded)
RangeError == "#RangeError"
\* null where the code holds number | null; a \d+ capture is never negative
NoNumber == -1

\* JS truthiness of a string-or-undefined value
Truthy(x) == x # Undefined /\ x # ""
\* !body for a string-or-null body: null and the empty string are falsy
Falsy(body) == body = Null \/ body = << >>

\* String.prototype.slice(a, b) for 0 <= a and 0 <= b
Slice(s, a, b) == SubSeq(s, a + 1, IF b > Len(s) THEN Len(s) ELSE b)

\* Map.prototype.get / set on a map kept as a function
MapGet(m, key) == IF key \in DOMAIN m THEN m[key] ELSE Undefined
MapSet(m, key, val) == [x \in (DOMAIN m) \cup {key} |-> IF x = key THEN val ELSE m[x]]
EmptyMap == [x \in {} |-> Undefined]

\* the tokens of kind kind, in source order
TokensOf(body, kind) == SelectSeq(body, LAMBDA t : t.k = kind)

(***************************************************************************)
(* Tokens of a member declaration                                          *)
(***************************************************************************)
Ws == [k |-> "ws"]
Word(w) == [k |-> "word", v |-> w]
Generic == [k |-> "generic"]
Override == [k |-> "@Override"]
LParen == [k |-> "("]
RParen == [k |-> ")"]
LBrace == [k |-> "{"]
RBrace == [k |-> "}"]
Other == [k |-> "other"]

IsKind(s, i, kind) == i < Len(s) /\ s[i + 1].k = kind
IsWs(s, i) == IsKind(s, i, "ws")
IsWord(s, i) == IsKind(s, i, "word")
IsWordOf(s, i, W) == IsWord(s, i) /\ s[i + 1].v \in W

(***************************************************************************)
(* extractMethodBody: the declaration pattern                              *)
(*   (?:@Override\s+)?(?:public|protected)\s+(?:\w+(?:<[^>]+>)?\s+)?       *)
(*   NAME\s*\([^)]*\)\s*\{                                                 *)
(* and the brace scan.  A word (\w+) is one token, a <...> group is one    *)
(* token.  A failed match is -1.                                           *)
(***************************************************************************)
\* \s* from i: the index of the first token that is not whitespace
RECURSIVE SkipWs(_, _)
SkipWs(s, i) == IF IsWs(s, i) THEN SkipWs(s, i + 1) ELSE i

\* [^)]*\) from i: the index of the first ")" at or after i
RECURSIVE FindClose(_, _)
FindClose(s, i) ==
    IF i >= Len(s) THEN -1
    ELSE IF s[i + 1].k = ")" THEN i
    ELSE FindClose(s, i + 1)

\* NAME\s*\([^)]*\)\s*\{ at n: the index after the opening brace
MatchNameAt(s, n, methodName) ==
    IF ~IsWordOf(s, n, {methodName}) THEN -1
    ELSE LET lp == SkipWs(s, n + 1) IN
         IF ~IsKind(s, lp, "(") THEN -1
         ELSE LET rp == FindClose(s, lp + 1) IN
              IF rp = -1 THEN -1
              ELSE LET ob == SkipWs(s, rp + 1) IN
                   IF IsKind(s, ob, "{") THEN ob + 1 ELSE -1

\* (?:\w+(?:<[^>]+>)?\s+)?NAME... at r: with a return type, else without one
MatchTypeAndName(s, r, methodName) ==
    LET g == IF IsKind(s, r + 1, "generic") THEN r + 2 ELSE r + 1
        withType == IF IsWord(s, r) /\ IsWs(s, g)
                    THEN MatchNameAt(s, SkipWs(s, g), methodName)
                    ELSE -1
    IN  IF withType # -1 THEN withType ELSE MatchNameAt(s, r, methodName)

\* the access modifier the pattern requires
Modifiers == {"public", "protected"}

\* the whole pattern at p
MatchDeclAt(s, p, methodName) ==
    LET q == IF IsKind(s, p, "@Override") /\ IsWs(s, p + 1)
             THEN SkipWs(s, p + 1) ELSE p
    IN  IF IsWordOf(s, q, Modifiers) /\ IsWs(s, q + 1)
        THEN MatchTypeAndName(s, SkipWs(s, q + 1), methodName)
        ELSE -1

\* source.match(regex): the leftmost match; match.index + match[0].length
MatchDecl(s, methodName) ==
    LET hits == {p \in 0..(Len(s) - 1) : MatchDeclAt(s, p, methodName) # -1} IN
    IF hits = {} THEN -1
    ELSE MatchDeclAt(s, CHOOSE p \in hits : \A q \in hits : p <= q, methodName)

\* one iteration of the while loop: the depth after reading c
DepthAfter(c, depth) ==
    IF c.k = "{" THEN depth + 1
    ELSE IF c.k = "}" THEN depth - 1
    ELSE depth

\* while (i < source.length && depth > 0) { ...; i++ }: the final i
RECURSIVE ScanBraces(_, _, _)
ScanBraces(source, i, depth) ==
    IF i < Len(source) /\ depth > 0
    THEN ScanBraces(source, i + 1, DepthAfter(source[i + 1], depth))
    ELSE i

\* a locator that falls back to the whole source when nothing matches
extractMethodBodyOrSource(source, methodName) ==
    LET start == MatchDecl(source, methodName) IN
    IF start = -1 THEN source
    ELSE Slice(source, start, ScanBraces(source, start, 1) - 1)

\* a locator whose slice ends at i instead of i - 1
extractMethodBodyToEnd(source, methodName) ==
    LET start == MatchDecl(source, methodName) IN
    IF start = -1 THEN Null
    ELSE Slice(source, start, ScanBraces(source, start, 1))

\* const match = source.match(regex); if (!match) return null; ... slice
extractMethodBody(source, methodName) ==
    LET start == MatchDecl(source, methodName) IN
    IF start = -1 THEN Null
    ELSE Slice(source, start, ScanBraces(source, start, 1) - 1)

(***************************************************************************)
(* Call-pattern extractors.  A call the extractor's regular expression     *)
(* matches is one token of the body; its captured groups are the token's   *)
(* value.                                                                  *)
(***************************************************************************)
\* new QuestPointReward(n)
QuestPointRewardTok(n) == [k |-> "QuestPointReward", v |-> n]
\* new ExperienceReward(Skill.X, n)
ExperienceRewardTok(skill, xp) == [k |-> "ExperienceReward", v |-> <<skill, xp>>]
\* new SkillRequirement(Skill.X, n
SkillRequirementTok(skill, level) == [k |-> "SkillRequirement", v |-> <<skill, level>>]
\* QuestRequirement(QuestHelperQuest.X
QuestRequirementTok(quest) == [k |-> "QuestRequirement", v |-> quest]
\* new QuestPointRequirement(n)
QuestPointRequirementTok(n) == [k |-> "QuestPointRequirement", v |-> n]
\* x = new ItemRequirement("display"
ItemRequirementTok(var, display) == [k |-> "ItemRequirement", v |-> <<var, display>>]
\* x = y.highlighted() or x = y.alsoCheckBank()
AliasTok(var, target) == [k |-> "alias", v |-> <<var, target>>]

parseQuestPoints(javaSrc) ==
    LET body == extractMethodBody(javaSrc, "getQuestPointReward") IN
    IF Falsy(body) THEN 0
    ELSE LET m == TokensOf(body, "QuestPointReward") IN
         IF m # << >> THEN m[1].v ELSE 0

\* a sequence without the elements that repeat an earlier one
RECURSIVE DropRepeats(_)
DropRepeats(s) ==
    IF s = << >> THEN << >>
    ELSE LET front == SubSeq(s, 1, Len(s) - 1) IN
         IF \E j \in 1..Len(front) : front[j] = s[Len(s)]
         THEN DropRepeats(front) ELSE Append(DropRepeats(front), s[Len(s)])

\* an extractor that pushes a reward only if the list does not hold it yet
parseExperienceRewardsOnce(javaSrc) ==
    LET body == extractMethodBody(javaSrc, "getExperienceRewards") IN
    IF Falsy(body) THEN << >>
    ELSE LET m == DropRepeats(TokensOf(body, "ExperienceReward")) IN
         [j \in 1..Len(m) |-> [skill |-> m[j].v[1], xp |-> m[j].v[2]]]

parseExperienceRewards(javaSrc) ==
    LET body == extractMethodBody(javaSrc, "getExperienceRewards") IN
    IF Falsy(body) THEN << >>
    ELSE LET m == TokensOf(body, "ExperienceReward") IN
         [j \in 1..Len(m) |-> [skill |-> m[j].v[1], xp |-> m[j].v[2]]]

\* s.charAt(0).toUpperCase() + s.slice(1).toLowerCase(), on the skill names
\* of the model
skillEnumToDisplay(s) ==
    CASE s \in {"COOKING", "Cooking", "cooking"} -> "Cooking"
      [] s \in {"FIREMAKING", "firemaking"} -> "Firemaking"
      [] OTHER -> s

\* m[1].replace(/_/g, " ").replace(/\b\w/g, c => c.toUpperCase()), on the
\* quest identifiers of the model
questEnumToDisplay(q) ==
    CASE q = "COOKS_ASSISTANT" -> "COOKS ASSISTANT"
      [] q \in {"rune_mysteries", "Rune_Mysteries"} -> "Rune Mysteries"
      [] OTHER -> q

\* a push without the includes test
PushAll(names, out) == out \o names

\* questRequirements.includes(name) guards the push
RECURSIVE PushDistinct(_, _)
PushDistinct(names, out) ==
    IF names = << >> THEN out
    ELSE PushDistinct(Tail(names),
                      IF \E j \in 1..Len(out) : out[j] = Head(names)
                      THEN out ELSE Append(out, Head(names)))

parseGeneralRequirements(javaSrc) ==
    LET body == extractMethodBody(javaSrc, "getGeneralRequirements") IN
    IF Falsy(body)
    THEN [skillRequirements |-> << >>, questRequirements |-> << >>,
          questPointRequirement |-> NoNumber]
    ELSE LET sk == TokensOf(body, "SkillRequirement")
             qr == TokensOf(body, "QuestRequirement")
             qp == TokensOf(body, "QuestPointRequirement")
         IN  [skillRequirements |->
                  [j \in 1..Len(sk) |-> [skillName |-> skillEnumToDisplay(sk[j].v[1]),
                                         level |-> sk[j].v[2]]],
              questRequirements |->
                  PushDistinct([j \in 1..Len(qr) |-> questEnumToDisplay(qr[j].v)], << >>),
              questPointRequirement |->
                  IF qp # << >> THEN qp[1].v ELSE NoNumber]

\* new LampReward(...) or new XpLampReward(...): the fields the field
\* patterns capture in the matched text (Undefined, NoNumber: no capture)
LampRewardTok(skills, value, quantity) ==
    [k |-> "LampReward", v |-> [skills |-> skills, value |-> value, quantity |-> quantity]]
\* ItemReward("name"...): the characters of the first string argument and
\* the same fields
ItemRewardTok(name, skills, value, quantity) ==
    [k |-> "ItemReward",
     v |-> [name |-> name, skills |-> skills, value |-> value, quantity |-> quantity]]

\* "[^"]*[Ll]amp[^"]*" on the characters of the string
ContainsLamp(name) ==
    \E i \in 1..(Len(name) - 3) :
        name[i] \in {"l", "L"} /\ name[i + 1] = "a" /\ name[i + 2] = "m" /\ name[i + 3] = "p"

NullLamp == [skills |-> Undefined, value |-> NoNumber, quantity |-> NoNumber]

parseLampRewards(javaSrc) ==
    LET body == extractMethodBody(javaSrc, "getItemRewards") IN
    IF Falsy(body) THEN NullLamp
    ELSE LET lampMatch ==
                 SelectSeq(body, LAMBDA t : \/ t.k = "LampReward"
                                            \/ t.k = "ItemReward" /\ ContainsLamp(t.v.name))
         IN  IF lampMatch = << >> THEN NullLamp
             ELSE LET first == lampMatch[1].v IN
                  [skills |-> IF first.skills # Undefined THEN first.skills ELSE "Any",
                   value |-> IF first.value # NoNumber THEN first.value ELSE 0,
                   quantity |-> IF first.quantity # NoNumber THEN first.quantity ELSE 1]

(***************************************************************************)
(* Item-requirement references                                             *)
(***************************************************************************)
\* List.of(...) and Arrays.asList(...): v is the list of the comma-separated
\* elements, each the list of its whitespace-separated pieces after trim
ListOfTok(elems) == [k |-> "List.of", v |-> elems]
AsListTok(elems) == [k |-> "Arrays.asList", v |-> elems]
\* reqs.add(x) or .add(x), x the text between the parentheses
AddTok(name) == [k |-> "add", v |-> name]

\* /^[a-zA-Z_][a-zA-Z0-9_]*$/ on the pieces of the model
WellFormedNames == {"bucket", "rope", "_key", "egg2", "step1", "step2", "missingStep"}
IsIdentifier(name) == name \in WellFormedNames

\* v.split(/\s+/).pop(): the last piece
LastPiece(elem) == elem[Len(elem)]

\* the elements' last pieces that are identifiers, in order
IdentifiersOf(elems) ==
    LET last == [j \in 1..Len(elems) |-> LastPiece(elems[j])] IN
    SelectSeq(last, LAMBDA n : n # "" /\ IsIdentifier(n))

\* the pieces of the model that hold a closing parenthesis, and what is
\* left of such a piece before its parenthesis
ParenPieces == {"getStep()"}
CutPiece(piece) == "getStep("
HasParen(elem) == \E j \in 1..Len(elem) : elem[j] \in ParenPieces

\* ([^)]+): the text of the list up to its first closing parenthesis; the
\* element that holds the parenthesis is cut there and what follows is lost
Captured(elems) ==
    LET ps == {j \in 1..Len(elems) : HasParen(elems[j])} IN
    IF ps = {} THEN elems
    ELSE LET p == CHOOSE j \in ps : \A q \in ps : j <= q
             c == CHOOSE j \in 1..Len(elems[p]) :
                      /\ elems[p][j] \in ParenPieces
                      /\ \A q \in 1..(j - 1) : elems[p][q] \notin ParenPieces
         IN  SubSeq(elems, 1, p - 1)
                 \o << SubSeq(elems[p], 1, c - 1) \o <<CutPiece(elems[p][c])>> >>

\* [^)]+ needs one character at least: a list without elements has no match
ListMatches(elems) == elems # << >>

parseItemRequirementVarNames(javaSrc) ==
    LET body == extractMethodBody(javaSrc, "getItemRequirements") IN
    IF Falsy(body) THEN << >>
    ELSE LET lo == SelectSeq(TokensOf(body, "List.of"), LAMBDA t : ListMatches(t.v))
             al == SelectSeq(TokensOf(body, "Arrays.asList"), LAMBDA t : ListMatches(t.v))
         IN  IF lo # << >> THEN IdentifiersOf(Captured(lo[1].v))
             ELSE IF al # << >> THEN IdentifiersOf(Captured(al[1].v))
             ELSE LET am == SelectSeq(TokensOf(body, "add"), LAMBDA t : IsIdentifier(t.v)) IN
                  [j \in 1..Len(am) |-> am[j].v]

(***************************************************************************)
(* Symbolic reference resolver                                             *)
(***************************************************************************)
\* while ((m = regex.exec(body)) !== null) map.set(m[1], m[2])
RECURSIVE SetAll(_, _)
SetAll(matches, m) ==
    IF matches = << >> THEN m
    ELSE SetAll(Tail(matches), MapSet(m, Head(matches).v[1], Head(matches).v[2]))

\* resolve(name).  The function has no guard against a cycle: a call for a
\* name whose call is already on the stack repeats that call without end,
\* and the engine throws RangeError when the stack is exhausted.  onStack
\* is the set of names of the calls on the stack.
RECURSIVE resolve(_, _, _, _)
resolve(name, displayByVar, alias, onStack) ==
    LET direct == MapGet(displayByVar, name) IN
    IF Truthy(direct) THEN direct
    ELSE LET target == MapGet(alias, name) IN
         IF Truthy(target)
         THEN IF target \in onStack \cup {name}
              THEN RangeError
              ELSE resolve(target, displayByVar, alias, onStack \cup {name})
         ELSE Undefined

\* what parseSetupRequirements is when resolve throws
Thrown == [x \in {RangeError} |-> RangeError]

\* for (const [k] of alias) { resolved = resolve(k); if (resolved) result.set(k, resolved) }
RECURSIVE ResolveAll(_, _, _, _)
ResolveAll(keys, displayByVar, alias, result) ==
    IF keys = << >> THEN result
    ELSE LET resolved == resolve(Head(keys), displayByVar, alias, {}) IN
         IF resolved = RangeError THEN Thrown
         ELSE ResolveAll(Tail(keys), displayByVar, alias,
                         IF Truthy(resolved) THEN MapSet(result, Head(keys), resolved)
                         ELSE result)

\* the keys of a map in insertion order: the first occurrence of each
RECURSIVE KeysInOrder(_, _)
KeysInOrder(matches, seen) ==
    IF matches = << >> THEN << >>
    ELSE IF Head(matches).v[1] \in seen THEN KeysInOrder(Tail(matches), seen)
    ELSE <<Head(matches).v[1]>> \o KeysInOrder(Tail(matches), seen \cup {Head(matches).v[1]})

parseSetupRequirements(javaSrc) ==
    LET body == extractMethodBody(javaSrc, "setupRequirements") IN
    IF Falsy(body) THEN EmptyMap
    ELSE LET displayByVar == SetAll(TokensOf(body, "ItemRequirement"), EmptyMap)
             am == TokensOf(body, "alias")
             alias == SetAll(am, EmptyMap)
         IN  ResolveAll(KeysInOrder(am, {}), displayByVar, alias, displayByVar)

\* for (const v of varNames) { display = setupReqs.get(v); if (display && !seen.has(display)) ... }
RECURSIVE resolveLoop(_, _, _)
resolveLoop(varNames, setupReqs, out) ==
    IF varNames = << >> THEN out
    ELSE LET display == MapGet(setupReqs, Head(varNames)) IN
         resolveLoop(Tail(varNames), setupReqs,
                     IF Truthy(display) /\ ~(\E j \in 1..Len(out) : out[j] = display)
                     THEN Append(out, display) ELSE out)

resolveItemRequirements(varNames, setupReqs) == resolveLoop(varNames, setupReqs, << >>)

(***************************************************************************)
(* Panel groupings                                                         *)
(***************************************************************************)
\* PanelDetails("title", List.of(...) | Arrays.asList(...) |
\* Collections.singletonList(...)): the title and the list's elements
PanelDetailsTok(title, syntax, elems) ==
    [k |-> "PanelDetails", v |-> [title |-> title, syntax |-> syntax, elems |-> elems]]

parsePanels(javaSrc) ==
    LET body == extractMethodBody(javaSrc, "getPanels") IN
    IF Falsy(body) THEN << >>
    ELSE LET m == SelectSeq(TokensOf(body, "PanelDetails"),
                            LAMBDA t : t.v.title # "" /\ ListMatches(t.v.elems))
         IN  [j \in 1..Len(m) |-> [panelName |-> m[j].v.title,
                                   stepVarNames |-> IdentifiersOf(Captured(m[j].v.elems))]]

(***************************************************************************)
(* Literal-string reconstructor.  The characters of a string expression    *)
(* are tokens: a quote, a backslash, a plus, whitespace, or a character.   *)
(***************************************************************************)
Quote == [k |-> "\""]
Backslash == [k |-> "\\"]
Plus == [k |-> "+"]
Ch(c) == [k |-> "ch", v |-> c]

\* the inner while loop from position i with s read so far: <<s, i>> at its end
RECURSIVE ReadFragment(_, _, _)
ReadFragment(body, i, s) ==
    IF i < Len(body)
    THEN LET c == body[i + 1] IN
         IF c.k = "\\" THEN ReadFragment(body, i + 2, s)
         ELSE IF c.k = "\"" THEN <<s, i + 1>>
         ELSE ReadFragment(body, i + 1, Append(s, c))
    ELSE <<s, i>>

\* the outer while loop from its test, with i at an opening quote
RECURSIVE ReadParts(_, _, _)
ReadParts(body, i, parts) ==
    IF i < Len(body)
    THEN LET f == ReadFragment(body, i + 1, << >>)
             pushed == Append(parts, f[1])
             plus == SkipWs(body, f[2])
         IN  IF ~IsKind(body, plus, "+") THEN pushed
             ELSE LET next == SkipWs(body, plus + 1) IN
                  IF ~IsKind(body, next, "\"") THEN pushed
                  ELSE ReadParts(body, next, pushed)
    ELSE parts

\* parts.join("")
RECURSIVE Join(_)
Join(parts) == IF parts = << >> THEN << >> ELSE Head(parts) \o Join(Tail(parts))

\* the reader without its look-ahead: the first fragment only
readFirstFragment(body, openQuoteIndex) ==
    ReadFragment(body, openQuoteIndex + 1, << >>)[1]

readConcatenatedString(body, openQuoteIndex) ==
    Join(ReadParts(body, openQuoteIndex, << >>))

(***************************************************************************)
(* Step-variable assignments                                               *)
(***************************************************************************)
\* x = new <kind>(this, ..., new WorldPoint(x, y, plane), up to the opening
\* quote, which is the next token
StepAssignTok(var, kind, point) ==
    [k |-> "StepAssign", v |-> [var |-> var, kind |-> kind, point |-> point]]

\* the 0-based indices, in order, of the step assignments of one of kinds
\* that an opening quote follows
StepMatches(body, kinds) ==
    SelectSeq([j \in 1..Len(body) |-> j - 1],
              LAMBDA p : /\ body[p + 1].k = "StepAssign"
                         /\ body[p + 1].v.kind \in kinds
                         /\ IsKind(body, p + 1, "\""))

StepRecord(body, p) ==
    [stepDescription |-> readConcatenatedString(body, p + 1),
     worldpoint |-> body[p + 1].v.point]

\* the first loop: map.set for every match
RECURSIVE SetSteps(_, _, _)
SetSteps(body, matches, map) ==
    IF matches = << >> THEN map
    ELSE SetSteps(body, Tail(matches),
                  MapSet(map, body[Head(matches) + 1].v.var, StepRecord(body, Head(matches))))

\* the second loop: map.set only if (!map.has(m[1]))
RECURSIVE SetStepsIfAbsent(_, _, _)
SetStepsIfAbsent(body, matches, map) ==
    IF matches = << >> THEN map
    ELSE LET var == body[Head(matches) + 1].v.var IN
         SetStepsIfAbsent(body, Tail(matches),
                          IF var \in DOMAIN map THEN map
                          ELSE MapSet(map, var, StepRecord(body, Head(matches))))

parseSetupSteps(javaSrc) ==
    LET body == extractMethodBody(javaSrc, "setupSteps") IN
    IF Falsy(body) THEN EmptyMap
    ELSE SetStepsIfAbsent(body, StepMatches(body, {"ObjectStep"}),
                          SetSteps(body, StepMatches(body, {"NpcStep", "ObjectStep"}), EmptyMap))

(***************************************************************************)
(* Record assembler                                                        *)
(***************************************************************************)
\* an inner loop that gives up at the first name the table lacks
RECURSIVE StepsUntilMissing(_, _)
StepsUntilMissing(stepVarNames, stepData) ==
    IF stepVarNames = << >> \/ Head(stepVarNames) \notin DOMAIN stepData THEN << >>
    ELSE <<stepData[Head(stepVarNames)]>> \o StepsUntilMissing(Tail(stepVarNames), stepData)

\* the inner loop: the step records of the names the table has, in order
RECURSIVE StepsOf(_, _)
StepsOf(stepVarNames, stepData) ==
    IF stepVarNames = << >> THEN << >>
    ELSE (IF Head(stepVarNames) \in DOMAIN stepData
          THEN <<stepData[Head(stepVarNames)]>> ELSE << >>)
         \o StepsOf(Tail(stepVarNames), stepData)

buildSteps(panels, stepData) ==
    [j \in 1..Len(panels) |-> [panelName |-> panels[j].panelName,
                               steps |-> StepsOf(panels[j].stepVarNames, stepData)]]

(***************************************************************************)
(* Names: display name, class name, folder                                 *)
(***************************************************************************)
\* name.replace(/'/g, "").split(/\s+/).map(capitalise).join(""), on the
\* display names of the model
displayNameToClassName(name) ==
    CASE name \in {"Cook's Assistant", "Cooks Assistant", "cooks assistant"} -> "CooksAssistant"
      [] name = "Dragon Slayer" -> "DragonSlayer"
      [] name = "Monkey Madness II" -> "MonkeyMadnessIi"
      [] OTHER -> name

\* name.replace(/([A-Z])/g, m => m.toLowerCase()), on the class names of the model
classNameToFolder(name) ==
    CASE name = "CooksAssistant" -> "cooksassistant"
      [] name = "DragonSlayer" -> "dragonslayer"
      [] name = "MonkeyMadnessIi" -> "monkeymadnessii"
      [] name = "MonkeyMadnessII" -> "monkeymadnessii"
      [] OTHER -> name

\* className.replace(/([a-z])([A-Z])/g, "$1 $2")
\*          .replace(/([A-Z]+)([A-Z][a-z])/g, "$1 $2").trim()
classNameToDisplayName(className) ==
    CASE className = "CooksAssistant" -> "Cooks Assistant"
      [] className = "DragonSlayer" -> "Dragon Slayer"
      [] className = "MonkeyMadnessIi" -> "Monkey Madness Ii"
      [] className = "MonkeyMadnessII" -> "Monkey Madness II"
      [] OTHER -> className

questFileUrl(displayName) ==
    LET className == displayNameToClassName(displayName) IN
    [folder |-> classNameToFolder(className), file |-> className]

\* public class X extends: one token, its value the class name
ClassTok(name) == [k |-> "class", v |-> name]

extractClassName(javaSrc) ==
    LET m == TokensOf(javaSrc, "class") IN
    IF m # << >> THEN m[1].v ELSE ""

(***************************************************************************)
(* main: the body of one loop iteration after a successful fetch, up to    *)
(* the QuestData record.  An exception of an extractor leaves it.          *)
(***************************************************************************)
\* the constants main binds from the source, lines 379-392
Extracted(javaSrc) ==
    [className |-> extractClassName(javaSrc),
     questPoints |-> parseQuestPoints(javaSrc),
     experienceRewards |-> parseExperienceRewards(javaSrc),
     lampRewards |-> parseLampRewards(javaSrc),
     general |-> parseGeneralRequirements(javaSrc),
     itemVarNames |-> parseItemRequirementVarNames(javaSrc),
     setupReqs |-> parseSetupRequirements(javaSrc),
     panels |-> parsePanels(javaSrc),
     stepData |-> parseSetupSteps(javaSrc)]

\* name, slug and the record of lines 380-404, from the constants c
Assembled(c, displayName) ==
    IF c.setupReqs = Thrown THEN [threw |-> TRUE]
    ELSE [threw |-> FALSE,
          slug |-> IF c.className # "" THEN classNameToFolder(c.className)
                   ELSE classNameToFolder(displayNameToClassName(displayName)),
          data |-> [name |-> IF c.className # "" THEN classNameToDisplayName(c.className)
                             ELSE displayName,
                    questPoints |-> c.questPoints,
                    experienceRewards |-> c.experienceRewards,
                    lampRewards |-> c.lampRewards,
                    skillRequirements |-> c.general.skillRequirements,
                    questRequirements |-> c.general.questRequirements,
                    questPointRequirement |-> c.general.questPointRequirement,
                    itemRequirements |-> resolveItemRequirements(c.itemVarNames, c.setupReqs),
                    steps |-> buildSteps(c.panels, c.stepData)]]

\* each constant is computed once
Extraction(javaSrc, displayName) ==
    CHOOSE e \in {Assembled(c, displayName) : c \in {Extracted(javaSrc)}} : TRUE

(***************************************************************************)
(* Inputs of the batch                                                     *)
(***************************************************************************)
\* the most entries approved-quests.json has
MaxQuests == 3

AllNames == <<"Cook's Assistant", "Dragon Slayer", "Cooks Assistant", "Monkey Madness II">>
QuestNames == {AllNames[j] : j \in 1..MaxQuests}
\* JSON values of an entry: true, false, and a value that is not a boolean
JsonValues == {"true", "false", "1"}

\* Object.entries(approved): the keys of an object are distinct
ApprovedLists ==
    {s \in UNION {[1..n -> QuestNames \X JsonValues] : n \in 0..MaxQuests} :
        \A a, b \in 1..Len(s) : a # b => s[a][1] # s[b][1]}

\* a member declaration with the modifier and a void return type
MethodDecl(modifier, name, body) ==
    <<Word(modifier), Ws, Word("void"), Ws, Word(name), LParen, RParen, Ws, LBrace>>
    \o body \o <<RBrace>>

\* a quest class whose every member is found
SrcComplete ==
    <<ClassTok("CooksAssistant"), Ws, LBrace>>
    \o MethodDecl("public", "getQuestPointReward", <<QuestPointRewardTok(1)>>)
    \o MethodDecl("protected", "setupRequirements",
                  <<ItemRequirementTok("rope", "Rope"), AliasTok("egg2", "rope")>>)
    \o MethodDecl("public", "getItemRequirements", <<AddTok("egg2")>>)
    \o <<RBrace>>
\* a source whose setup member holds an alias cycle
SrcCycle ==
    <<ClassTok("DragonSlayer"), Ws, LBrace>>
    \o MethodDecl("protected", "setupRequirements",
                  <<AliasTok("rope", "bucket"), AliasTok("bucket", "rope")>>)
    \o <<RBrace>>
\* a source with no class declaration and no member
SrcBare == <<Other>>

BatchSources == {SrcComplete, SrcCycle, SrcBare}

(***************************************************************************)
(* main: the batch orchestrator                                            *)
(***************************************************************************)
NoData == [name |-> Undefined]

\* Object.entries(approved).filter(([, v]) => v === true).map(([name]) => name)
ApprovedNames(entries) ==
    LET kept == SelectSeq(entries, LAMBDA e : e[2] = "true") IN
    [j \in 1..Len(kept) |-> kept[j][1]]

InitBatch ==
    /\ approved \in ApprovedLists
    /\ toProcess = << >>
    /\ idx = 0
    /\ pc = "start"
    /\ java = << >>
    /\ data = NoData
    /\ phase = << >>
    /\ log = << >>
    /\ files = EmptyMap
    /\ fetched = << >>
    /\ fn = "none"
    /\ arg = << >>
    /\ ret = << >>
    /\ UiIdle

\* a catch that logs the error and goes on with what it has of the list
ReadApprovedFailsGoesOn ==
    /\ pc = "start"
    /\ toProcess' = ApprovedNames(approved)
    /\ phase' = [j \in 1..Len(toProcess') |-> "Pending"]
    /\ log' = Append(log, [kind |-> "read-failed", name |-> ""])
    /\ pc' = "loop"
    /\ UNCHANGED <<approved, idx, java, data, files, fetched, fnVars, uiVars>>

\* readFileSync or JSON.parse throws: console.error, process.exit(1)
ReadApprovedFails ==
    /\ pc = "start"
    /\ approved' = << >>
    /\ log' = Append(log, [kind |-> "read-failed", name |-> ""])
    /\ pc' = "exited"
    /\ UNCHANGED <<toProcess, idx, java, data, phase, files, fetched, fnVars, uiVars>>

\* the list is read; toProcess is computed; an empty one returns
ReadApproved ==
    /\ pc = "start"
    /\ toProcess' = ApprovedNames(approved)
    /\ IF toProcess' = << >>
       THEN /\ log' = Append(log, [kind |-> "none-approved", name |-> ""])
            /\ pc' = "returned"
       ELSE /\ log' = log
            /\ pc' = "loop"
    /\ phase' = [j \in 1..Len(toProcess') |-> "Pending"]
    /\ UNCHANGED <<approved, idx, java, data, files, fetched, fnVars, uiVars>>

\* a loop that starts every remaining fetch at once and awaits them together
StartFetchAll ==
    /\ pc = "loop"
    /\ idx < Len(toProcess)
    /\ fetched' = fetched \o SubSeq(toProcess, idx + 1, Len(toProcess))
    /\ phase' = [j \in 1..Len(phase) |-> IF j > idx THEN "Fetching" ELSE phase[j]]
    /\ pc' = "fetching"
    /\ UNCHANGED <<approved, toProcess, idx, java, data, log, files, fnVars, uiVars>>

\* the next iteration: fetchQuestFile(questFileUrl(displayName)) is awaited
StartFetch ==
    /\ pc = "loop"
    /\ idx < Len(toProcess)
    /\ fetched' = Append(fetched, toProcess[idx + 1])
    /\ phase' = [phase EXCEPT ![idx + 1] = "Fetching"]
    /\ pc' = "fetching"
    /\ UNCHANGED <<approved, toProcess, idx, java, data, log, files, fnVars, uiVars>>

\* a loop without the try/catch around the fetch: the rejection leaves main
FetchFailsUncaught ==
    /\ pc = "fetching"
    /\ pc' = "crashed"
    /\ UNCHANGED <<approved, toProcess, idx, java, data, phase, log, files, fetched, fnVars, uiVars>>

\* a catch without its continue: the failure is logged and the loop body
\* goes on to the extractors with the source it has
FetchFailsNoContinue ==
    /\ pc = "fetching"
    /\ log' = Append(log, [kind |-> "skip-fetch", name |-> toProcess[idx + 1]])
    /\ phase' = [phase EXCEPT ![idx + 1] = "Extracting"]
    /\ pc' = "extracting"
    /\ UNCHANGED <<approved, toProcess, idx, java, data, files, fetched, fnVars, uiVars>>

\* fetch rejects, or the status is not ok: console.warn, continue
FetchFails ==
    /\ pc = "fetching"
    /\ log' = Append(log, [kind |-> "skip-fetch", name |-> toProcess[idx + 1]])
    /\ phase' = [phase EXCEPT ![idx + 1] = "Skipped"]
    /\ idx' = idx + 1
    /\ pc' = "loop"
    /\ UNCHANGED <<approved, toProcess, java, data, files, fetched, fnVars, uiVars>>

\* the response text is the source
FetchOk ==
    /\ pc = "fetching"
    /\ \E src \in BatchSources : java' = src
    /\ phase' = [phase EXCEPT ![idx + 1] = "Extracting"]
    /\ pc' = "extracting"
    /\ UNCHANGED <<approved, toProcess, idx, data, log, files, fetched, fnVars, uiVars>>

\* what main does with the outcome of the extraction: no try encloses it,
\* so an exception rejects main's promise and the process ends
AfterExtraction(e) ==
    IF e.threw
    THEN /\ pc' = "crashed"
         /\ UNCHANGED <<data, phase>>
    ELSE /\ pc' = "writing"
         /\ data' = e
         /\ phase' = [phase EXCEPT ![idx + 1] = "Writing"]

\* an extraction whose item-requirement list lives outside the function and
\* still holds what the previous input left in it
ExtractKeepingItems ==
    /\ pc = "extracting"
    /\ \E e \in {Extraction(java, toProcess[idx + 1])} :
          AfterExtraction(IF e.threw \/ data = NoData THEN e
                          ELSE [e EXCEPT !.data.itemRequirements =
                                             data.data.itemRequirements \o @])
    /\ UNCHANGED <<approved, toProcess, idx, java, log, files, fetched, fnVars, uiVars>>

Extract ==
    /\ pc = "extracting"
    /\ \E e \in {Extraction(java, toProcess[idx + 1])} : AfterExtraction(e)
    /\ UNCHANGED <<approved, toProcess, idx, java, log, files, fetched, fnVars, uiVars>>

\* writeQuestFile returns: the file holds the record, console.log
WriteOk ==
    /\ pc = "writing"
    /\ files' = MapSet(files, data.slug, data.data)
    /\ log' = Append(log, [kind |-> "wrote", name |-> data.slug])
    /\ phase' = [phase EXCEPT ![idx + 1] = "Done"]
    /\ idx' = idx + 1
    /\ pc' = "loop"
    /\ UNCHANGED <<approved, toProcess, java, data, fetched, fnVars, uiVars>>

\* mkdirSync or writeFileSync throws: console.warn
WriteFails ==
    /\ pc = "writing"
    /\ log' = Append(log, [kind |-> "skip-write", name |-> toProcess[idx + 1]])
    /\ phase' = [phase EXCEPT ![idx + 1] = "Skipped"]
    /\ idx' = idx + 1
    /\ pc' = "loop"
    /\ UNCHANGED <<approved, toProcess, java, data, files, fetched, fnVars, uiVars>>

\* the loop is over: console.log("Done.")
Finish ==
    /\ pc = "loop"
    /\ idx >= Len(toProcess)
    /\ log' = Append(log, [kind |-> "done", name |-> ""])
    /\ pc' = "done"
    /\ UNCHANGED <<approved, toProcess, idx, java, data, phase, files, fetched, fnVars, uiVars>>

NextBatch ==
    \/ ReadApprovedFails
    \/ ReadApproved
    \/ StartFetch
    \/ FetchFails
    \/ FetchOk
    \/ Extract
    \/ WriteOk
    \/ WriteFails
    \/ Finish

SpecBatch == InitBatch /\ [][NextBatch]_vars

(***************************************************************************)
(* The extractors on their own: a function is applied to an argument drawn *)
(* from a bounded set, and the orchestrator stands still.                  *)
(***************************************************************************)
BatchIdle ==
    /\ approved = << >>
    /\ toProcess = << >>
    /\ idx = 0
    /\ pc = "idle"
    /\ java = << >>
    /\ data = NoData
    /\ phase = << >>
    /\ log = << >>
    /\ files = EmptyMap
    /\ fetched = << >>

(***************************************************************************)
(* parseSetupRequirements and resolveItemRequirements on setup bodies      *)
(***************************************************************************)
\* the most statements a setup body has
MaxStmts == 3

ReqVars == {"rope", "bucket", "egg2"}
Displays == {"", "Rope"}

SetupStmts ==
    {ItemRequirementTok(x, d) : x \in ReqVars, d \in Displays}
    \cup {AliasTok(x, y) : x \in ReqVars, y \in ReqVars}

SetupBodies == UNION {[1..n -> SetupStmts] : n \in 0..MaxStmts}

SetupSource(body) == MethodDecl("protected", "setupRequirements", body)

InitAlias ==
    /\ BatchIdle
    /\ UiIdle
    /\ fn = "none"
    /\ arg \in {[body |-> b, varNames |-> << >>] : b \in SetupBodies}
    /\ ret = [setupReqs |-> EmptyMap, itemRequirements |-> << >>]

CallParseSetupRequirements ==
    /\ fn = "none"
    /\ fn' = "parseSetupRequirements"
    /\ ret' = [ret EXCEPT !.setupReqs = parseSetupRequirements(SetupSource(arg.body))]
    /\ UNCHANGED <<arg, batchVars, uiVars>>

\* main calls resolveItemRequirements with the map, unless the parse threw
CallResolveItemRequirements ==
    /\ fn = "parseSetupRequirements"
    /\ ret.setupReqs # Thrown
    /\ \E x \in ReqVars :
          /\ arg' = [arg EXCEPT !.varNames = <<x>>]
          /\ ret' = [ret EXCEPT !.itemRequirements =
                                    resolveItemRequirements(<<x>>, ret.setupReqs)]
    /\ fn' = "resolveItemRequirements"
    /\ UNCHANGED <<batchVars, uiVars>>

NextAlias == CallParseSetupRequirements \/ CallResolveItemRequirements

SpecAlias == InitAlias /\ [][NextAlias]_vars

\* the display map and the alias map the function builds from a body
DisplayByVar(body) == SetAll(TokensOf(body, "ItemRequirement"), EmptyMap)
AliasOf(body) == SetAll(TokensOf(body, "alias"), EmptyMap)

\* the name n alias hops after x, Undefined once a name has a display text
\* or no alias
RECURSIVE Hop(_, _, _)
Hop(body, x, n) ==
    IF n = 0 THEN x
    ELSE IF x = Undefined \/ Truthy(MapGet(DisplayByVar(body), x)) THEN Undefined
    ELSE Hop(body, MapGet(AliasOf(body), x), n - 1)

\* x aliases itself, directly or through others, with no display text on the way
OnAliasCycle(body, x) == \E n \in 1..Cardinality(ReqVars) : Hop(body, x, n) = x

\* C4: reference resolution ends for every alias graph of the setup member,
\* also one with an alias cycle, without an exception, and a name on a cycle
\* has no entry in the resolved map.
C4_AliasCycleIsUnresolved ==
    fn # "none" =>
        /\ ret.setupReqs # Thrown
        /\ \A x \in ReqVars :
              OnAliasCycle(arg.body, x) => ~Truthy(MapGet(ret.setupReqs, x))

\* the statements of the body
StmtsOf(body) == {body[j] : j \in 1..Len(body)}

\* c is an alias chain of the body that ends in the display text d: every
\* name but the last is assigned once, from its successor through a modifier
\* call, and has no display text of its own; the last has the one display
\* text d, which is not empty
IsAliasChain(body, c, d) ==
    /\ Len(c) >= 2
    /\ \A a, b \in 1..Len(c) : a # b => c[a] # c[b]
    /\ d # ""
    /\ \A j \in 1..(Len(c) - 1) :
          /\ AliasTok(c[j], c[j + 1]) \in StmtsOf(body)
          /\ \A y \in ReqVars : AliasTok(c[j], y) \in StmtsOf(body) => y = c[j + 1]
          /\ \A e \in Displays : ItemRequirementTok(c[j], e) \notin StmtsOf(body)
    /\ ItemRequirementTok(c[Len(c)], d) \in StmtsOf(body)
    /\ \A e \in Displays : ItemRequirementTok(c[Len(c)], e) \in StmtsOf(body) => e = d

AliasChains == UNION {[1..n -> ReqVars] : n \in 2..Cardinality(ReqVars)}

\* C10: for every alias chain a1 -> ... -> an of the setup member whose last
\* name has the display text D, every name of the chain resolves to D, and a
\* reference to a1 yields D in itemRequirements.
C10_AliasChainResolves ==
    \A c \in AliasChains : \A d \in Displays :
        IsAliasChain(arg.body, c, d) =>
            /\ fn # "none" =>
                  /\ ret.setupReqs # Thrown
                  /\ \A j \in 1..Len(c) : MapGet(ret.setupReqs, c[j]) = d
            /\ (fn = "resolveItemRequirements" /\ arg.varNames = <<c[1]>>) =>
                  ret.itemRequirements = <<d>>

(***************************************************************************)
(* parseSetupSteps on setup-steps bodies                                   *)
(***************************************************************************)
\* the most step assignments a body has
MaxSteps == 3

StepVars == {"step1", "step2"}
StepKinds == {"NpcStep", "ObjectStep", "DetailedQuestStep"}
\* a description and the world point written with it
StepTexts == {"A", "B"}
PointOf(text) ==
    IF text = "A" THEN [x |-> 3206, y |-> 3214, plane |-> 0]
    ELSE [x |-> 3208, y |-> 3216, plane |-> 1]

\* x = new Kind(this, id, new WorldPoint(..), "text"
StepStmt(x, kind, text) == <<StepAssignTok(x, kind, PointOf(text)), Quote, Ch(text), Quote>>

StepStmts == {StepStmt(x, kind, text) : x \in StepVars, kind \in StepKinds, text \in StepTexts}

RECURSIVE Flatten(_)
Flatten(seqs) == IF seqs = << >> THEN << >> ELSE Head(seqs) \o Flatten(Tail(seqs))

StepBodies == UNION {[1..n -> StepStmts] : n \in 0..MaxSteps}

InitSteps ==
    /\ BatchIdle
    /\ UiIdle
    /\ fn = "none"
    /\ arg \in {[stmts |-> b] : b \in StepBodies}
    /\ ret = EmptyMap

CallParseSetupSteps ==
    /\ fn = "none"
    /\ fn' = "parseSetupSteps"
    /\ ret' = parseSetupSteps(MethodDecl("public", "setupSteps", Flatten(arg.stmts)))
    /\ UNCHANGED <<arg, batchVars, uiVars>>

NextSteps == CallParseSetupSteps

SpecSteps == InitSteps /\ [][NextSteps]_vars

\* the statement's variable, kind and step record
StmtVar(st) == st[1].v.var
StmtKind(st) == st[1].v.kind
StmtRecord(st) == [stepDescription |-> <<st[3]>>, worldpoint |-> st[1].v.point]

\* C5: when a variable is assigned by both recognized step kinds, the step
\* table keeps the binding that appears first in the source.
C5_FirstBindingWins ==
    fn = "parseSetupSteps" =>
        \A a, b \in 1..Len(arg.stmts) :
            (/\ a < b
             /\ StmtVar(arg.stmts[a]) = StmtVar(arg.stmts[b])
             /\ {StmtKind(arg.stmts[a]), StmtKind(arg.stmts[b])} = {"NpcStep", "ObjectStep"}
             /\ \A j \in 1..(a - 1) :
                   StmtVar(arg.stmts[j]) = StmtVar(arg.stmts[a])
                       => StmtKind(arg.stmts[j]) = "DetailedQuestStep")
            => ret[StmtVar(arg.stmts[a])] = StmtRecord(arg.stmts[a])

(***************************************************************************)
(* readConcatenatedString on string expressions                            *)
(***************************************************************************)
\* the most units (characters, escapes and joins) between the first opening
\* quote and the last closing quote
MaxUnits == 3

\* inside a fragment: a letter, a plus sign, an escaped quote, an escaped
\* backslash; between two fragments: a + with no whitespace, with whitespace
\* on both sides, with whitespace before it
CharUnits == {"a", "+", "esc-quote", "esc-backslash"}
JoinUnits == {"join", "join-ws-both", "join-ws-before"}
Units == CharUnits \cup JoinUnits

\* the source text of a unit
UnitText(u) ==
    CASE u = "a" -> <<Ch("a")>>
      [] u = "+" -> <<Plus>>
      [] u = "esc-quote" -> <<Backslash, Quote>>
      [] u = "esc-backslash" -> <<Backslash, Backslash>>
      [] u = "join" -> <<Quote, Plus, Quote>>
      [] u = "join-ws-both" -> <<Quote, Ws, Plus, Ws, Ws, Quote>>
      [] u = "join-ws-before" -> <<Quote, Ws, Plus, Quote>>

\* what a unit adds to the string's value: the character, the character an
\* escape stands for, nothing for a join
UnitValue(u) ==
    CASE u = "a" -> <<Ch("a")>>
      [] u = "+" -> <<Plus>>
      [] u = "esc-quote" -> <<Quote>>
      [] u = "esc-backslash" -> <<Backslash>>
      [] OTHER -> << >>

\* what follows the last closing quote
Tails == {<< >>, <<RParen>>, <<Ws, Plus, Ws, Word("name"), Ws, Plus, Ws, Quote, Ch("a"), Quote>>}

\* N >= 1 quoted literals joined by +, after the text the step pattern matched
StringExpr(units, tail) ==
    <<StepAssignTok("step1", "NpcStep", PointOf("A")), Quote>>
    \o Flatten([j \in 1..Len(units) |-> UnitText(units[j])])
    \o <<Quote>> \o tail

InitStr ==
    /\ BatchIdle
    /\ UiIdle
    /\ fn = "none"
    /\ arg \in {[units |-> u, tail |-> t] :
                   u \in UNION {[1..n -> Units] : n \in 0..MaxUnits}, t \in Tails}
    /\ ret = << >>

CallReadConcatenatedString ==
    /\ fn = "none"
    /\ fn' = "readConcatenatedString"
    /\ ret' = readConcatenatedString(StringExpr(arg.units, arg.tail), 1)
    /\ UNCHANGED <<arg, batchVars, uiVars>>

NextStr == CallReadConcatenatedString

SpecStr == InitStr /\ [][NextStr]_vars

\* C6: for N >= 1 quoted literals joined by +, with any whitespace around
\* each +, the result is the concatenation of the fragments' contents with
\* no separator and with each escape resolved to the character it escapes.
C6_ConcatenationWithEscapes ==
    fn = "readConcatenatedString" =>
        ret = Flatten([j \in 1..Len(arg.units) |-> UnitValue(arg.units[j])])

(***************************************************************************)
(* extractMethodBody on member declarations                                *)
(***************************************************************************)
\* the most tokens that follow the opening brace of the declaration
MaxTail == 4

DeclModifiers == {"public", "protected", "private", "none"}
DeclTypes == {"void", "generic", "none"}
\* the requested member, and a member whose name contains the requested name
DeclNames == {"getPanels", "getPanelsOld"}

\* [@Override] [modifier] [type] name() {
DeclHeader(d) ==
    (IF d.override THEN <<Override, Ws>> ELSE << >>)
    \o (IF d.modifier # "none" THEN <<Word(d.modifier), Ws>> ELSE << >>)
    \o (CASE d.type = "void" -> <<Word("void"), Ws>>
           [] d.type = "generic" -> <<Word("List"), Generic, Ws>>
           [] OTHER -> << >>)
    \o <<Word(d.name), LParen, RParen, Ws, LBrace>>

Decls == [override : BOOLEAN, modifier : DeclModifiers, type : DeclTypes, name : DeclNames]
BraceTails == UNION {[1..n -> {LBrace, RBrace, Other}] : n \in 0..MaxTail}

InitLocate ==
    /\ BatchIdle
    /\ UiIdle
    /\ fn = "none"
    /\ arg \in {[decl |-> d, tail |-> t] : d \in Decls, t \in BraceTails}
    /\ ret = << >>

CallExtractMethodBody ==
    /\ fn = "none"
    /\ fn' = "extractMethodBody"
    /\ ret' = extractMethodBody(<<Other, Ws>> \o DeclHeader(arg.decl) \o arg.tail, "getPanels")
    /\ UNCHANGED <<arg, batchVars, uiVars>>

NextLocate == CallExtractMethodBody

SpecLocate == InitLocate /\ [][NextLocate]_vars

\* the number of tokens of kind kind in s
Count(s, kind) == Cardinality({j \in 1..Len(s) : s[j].k = kind})

\* equal numbers of { and }, and no prefix with more } than {
Balanced(s) ==
    /\ Count(s, "{") = Count(s, "}")
    /\ \A n \in 0..Len(s) : Count(SubSeq(s, 1, n), "}") <= Count(SubSeq(s, 1, n), "{")

\* the tail is a balanced body, its closing brace, and the rest of the source
BodyOf(tail, body) ==
    /\ Balanced(body)
    /\ Len(body) < Len(tail)
    /\ SubSeq(tail, 1, Len(body)) = body
    /\ tail[Len(body) + 1] = RBrace

Prefixes(tail) == {SubSeq(tail, 1, n) : n \in 0..Len(tail)}

\* C7: for every source with a declaration of the named member whose body
\* has balanced braces, the result is the text between the body's opening
\* brace and its matching closing brace.
C7_BalancedBodyIsReturned ==
    (fn = "extractMethodBody" /\ arg.decl.name = "getPanels") =>
        \A body \in Prefixes(arg.tail) : BodyOf(arg.tail, body) => ret = body

\* C9: a declaration of the named member is found with or without an access
\* modifier and a generic return type, and a member whose name only contains
\* the requested name is not.
C9_ModifierIsOptional ==
    fn = "extractMethodBody" =>
        /\ (arg.decl.name = "getPanels"
              /\ \E body \in Prefixes(arg.tail) : BodyOf(arg.tail, body)) => ret # Null
        /\ arg.decl.name # "getPanels" => ret = Null

(***************************************************************************)
(* The extractors on sources that lack members                             *)
(***************************************************************************)
Members == <<"getQuestPointReward", "getExperienceRewards", "getItemRewards",
             "getGeneralRequirements", "getItemRequirements", "setupRequirements",
             "getPanels", "setupSteps">>
MemberNames == {Members[j] : j \in 1..Len(Members)}

\* a body of the member that gives its extractor something to return
MemberBody(m) ==
    CASE m = "getQuestPointReward" -> <<QuestPointRewardTok(5)>>
      [] m = "getExperienceRewards" ->
            <<ExperienceRewardTok("COOKING", 500), ExperienceRewardTok("FIREMAKING", 250)>>
      [] m = "getItemRewards" -> <<ItemRewardTok(<<"L", "a", "m", "p">>, Undefined, 2500, 1)>>
      [] m = "getGeneralRequirements" ->
            <<SkillRequirementTok("COOKING", 10), QuestRequirementTok("COOKS_ASSISTANT"),
              QuestPointRequirementTok(12)>>
      [] m = "getItemRequirements" -> <<ListOfTok(<< <<"rope">>, <<"bucket">> >>)>>
      [] m = "setupRequirements" ->
            <<ItemRequirementTok("rope", "Rope"), AliasTok("bucket", "rope")>>
      [] m = "getPanels" ->
            <<PanelDetailsTok("Starting off", "List.of",
                              << <<"step1">>, <<"step2">>, <<"missingStep">> >>)>>
      [] m = "setupSteps" ->
            StepStmt("step1", "NpcStep", "A") \o StepStmt("step2", "ObjectStep", "B")

\* how a source declares a member: as the pattern expects ("public"), not
\* at all, or with a modifier the pattern does not accept
MemberText(m, how) ==
    IF how = "absent" THEN << >> ELSE MethodDecl(how, m, MemberBody(m)) \o <<Ws>>

\* the members of found are declared public, the others as others says
SourceOf(found, others) ==
    <<ClassTok("CooksAssistant"), Ws, LBrace>>
    \o Flatten([j \in 1..Len(Members) |->
                   MemberText(Members[j], IF Members[j] \in found THEN "public" ELSE others)])
    \o <<RBrace>>

InitExtract ==
    /\ BatchIdle
    /\ UiIdle
    /\ fn = "none"
    /\ arg \in {[found |-> f, others |-> o] :
                   f \in SUBSET MemberNames, o \in {"absent", "private"}}
    /\ ret = << >>

\* every extractor on the one source, as main applies them
CallExtractors ==
    /\ fn = "none"
    /\ fn' = "extractors"
    /\ LET src == SourceOf(arg.found, arg.others) IN
       ret' = [bodies |-> [m \in MemberNames |-> extractMethodBody(src, m)],
               questPoints |-> parseQuestPoints(src),
               experienceRewards |-> parseExperienceRewards(src),
               lampRewards |-> parseLampRewards(src),
               general |-> parseGeneralRequirements(src),
               itemVarNames |-> parseItemRequirementVarNames(src),
               setupReqs |-> parseSetupRequirements(src),
               panels |-> parsePanels(src),
               stepData |-> parseSetupSteps(src)]
    /\ UNCHANGED <<arg, batchVars, uiVars>>

NextExtract == CallExtractors

SpecExtract == InitExtract /\ [][NextExtract]_vars

\* the source has no declaration of m that the pattern matches
NoMatch(m) == m \notin arg.found

\* C8: when the source has no matching declaration of a member,
\* extractMethodBody returns not-found and every extractor that depends on
\* the member returns its empty or default result.
C8_AbsentMemberGivesDefaults ==
    fn = "extractors" =>
        /\ \A m \in MemberNames : NoMatch(m) => ret.bodies[m] = Null
        /\ NoMatch("getQuestPointReward") => ret.questPoints = 0
        /\ NoMatch("getExperienceRewards") => ret.experienceRewards = << >>
        /\ NoMatch("getItemRewards") => ret.lampRewards = NullLamp
        /\ NoMatch("getGeneralRequirements") =>
              /\ ret.general.skillRequirements = << >>
              /\ ret.general.questRequirements = << >>
              /\ ret.general.questPointRequirement = NoNumber
        /\ NoMatch("getItemRequirements") => ret.itemVarNames = << >>
        /\ NoMatch("setupRequirements") => ret.setupReqs = EmptyMap
        /\ NoMatch("getPanels") => ret.panels = << >>
        /\ NoMatch("setupSteps") => ret.stepData = EmptyMap

\* a source that lacks some members and declares the others: the extractors
\* of the declared ones return what the bodies hold
C8_Witness ==
    /\ fn = "extractors"
    /\ arg.found = {"getExperienceRewards", "setupSteps"}
    /\ arg.others = "absent"
    /\ ret.questPoints = 0
    /\ ret.panels = << >>
    /\ Len(ret.experienceRewards) = 2
    /\ DOMAIN ret.stepData = {"step1", "step2"}

(***************************************************************************)
(* Claims about the batch orchestrator                                     *)
(***************************************************************************)
\* the entries of the log of one kind
LogOf(kind) == SelectSeq(log, LAMBDA e : e.kind = kind)

\* C1: a failed fetch and a failed write are logged, the input is skipped
\* and the loop goes on to the next input; the batch never ends because of
\* a fetch or a write failure.
C1_FetchAndWriteFailuresAreSkipped ==
    /\ \A j \in 1..Len(phase) :
          phase[j] = "Skipped" =>
              /\ j <= idx
              /\ \E e \in 1..Len(log) :
                    log[e].kind \in {"skip-fetch", "skip-write"} /\ log[e].name = toProcess[j]
    /\ Len(LogOf("skip-fetch")) + Len(LogOf("skip-write"))
          = Cardinality({j \in 1..Len(phase) : phase[j] = "Skipped"})
    /\ \A j \in 1..Len(phase) : phase[j] \in {"Fetching", "Writing"} => pc # "crashed"
    /\ (pc = "loop" /\ idx < Len(toProcess)) => phase[idx + 1] = "Pending"
    /\ pc = "done" =>
          /\ \A j \in 1..Len(phase) : phase[j] \in {"Done", "Skipped"}
          /\ Len(LogOf("wrote")) = Cardinality({j \in 1..Len(phase) : phase[j] = "Done"})

\* three approved inputs: the fetch of the first fails, the second is
\* written, the write of the third fails, and the batch is done
C1_Witness ==
    /\ pc = "done"
    /\ phase = <<"Skipped", "Done", "Skipped">>
    /\ [j \in 1..Len(log) |-> log[j].kind] = <<"skip-fetch", "wrote", "skip-write", "done">>
    /\ DOMAIN files # {}

\* C2: a failure raised while an input is in Extracting moves the input to
\* Skipped and the orchestrator goes on: an input is in Extracting only
\* while it is being extracted, and the batch does not end there.
C2_ExtractionFailureIsSkipped ==
    /\ pc # "crashed"
    /\ \A j \in 1..Len(phase) :
          phase[j] = "Extracting" => (pc = "extracting" /\ j = idx + 1)

\* the approved inputs: the names of the entries whose value is true
TrueNames == LET t == SelectSeq(approved, LAMBDA e : e[2] = "true")
             IN  [j \in 1..Len(t) |-> t[j][1]]

\* the orchestrator has stopped
Stopped == pc \in {"done", "returned", "crashed"}

\* C3: every approved input is attempted once, in the mapping's order, no
\* other entry is attempted, and the orchestrator stops only after all of
\* them have been attempted.
C3_EveryApprovedInputAttemptedOnce ==
    /\ pc \notin {"start", "exited"} =>
          (Len(fetched) <= Len(TrueNames) /\ fetched = SubSeq(TrueNames, 1, Len(fetched)))
    /\ Stopped => fetched = TrueNames

(***************************************************************************)
(* buildSteps on panel groupings and step tables                           *)
(***************************************************************************)
\* the most references a panel grouping has
MaxRefs == 3

\* a batch has no, one or two panel groupings
PanelCounts == {0, 1, 2}
PanelTitles == <<"Starting off", "Finishing">>
\* the names a grouping refers to: two step variables and one never assigned
RefNames == StepVars \cup {"missingStep"}
RefLists == UNION {[1..n -> RefNames] : n \in 0..MaxRefs}
PanelLists ==
    UNION {{[j \in 1..n |-> [panelName |-> PanelTitles[j], stepVarNames |-> refs[j]]] :
               refs \in [1..n -> RefLists]} : n \in PanelCounts}
\* the step tables: each assigned variable has one record
StepTables ==
    UNION {[vs -> {[stepDescription |-> <<Ch(t)>>, worldpoint |-> PointOf(t)] : t \in StepTexts}] :
               vs \in {{}, {"step1"}, {"step1", "step2"}}}

InitBuild ==
    /\ BatchIdle
    /\ UiIdle
    /\ fn = "none"
    /\ arg \in {[panels |-> ps, stepData |-> sd] : ps \in PanelLists, sd \in StepTables}
    /\ ret = << >>

CallBuildSteps ==
    /\ fn = "none"
    /\ fn' = "buildSteps"
    /\ ret' = buildSteps(arg.panels, arg.stepData)
    /\ UNCHANGED <<arg, batchVars, uiVars>>

NextBuild == CallBuildSteps

SpecBuild == InitBuild /\ [][NextBuild]_vars

\* the references of a grouping that have a step record, in source order
Resolved(refs) == SelectSeq(refs, LAMBDA v : v \in DOMAIN arg.stepData)

\* C11: buildSteps emits one panel per grouping, in grouping order; a
\* panel's steps are the step records of its references that the step table
\* has, in the references' order; a reference without a record is dropped
\* and the panel is still emitted.
C11_DanglingReferenceIsDropped ==
    fn = "buildSteps" =>
        /\ Len(ret) = Len(arg.panels)
        /\ \A j \in 1..Len(ret) :
              LET kept == Resolved(arg.panels[j].stepVarNames) IN
              /\ ret[j].panelName = arg.panels[j].panelName
              /\ ret[j].steps = [i \in 1..Len(kept) |-> arg.stepData[kept[i]]]

\* PanelDetails("Starting off", List.of(step1, step2, missingStep)) with
\* step1 and step2 assigned: the panel holds the two records, in order
C11_Witness ==
    /\ fn = "buildSteps"
    /\ Len(arg.panels) = 1
    /\ arg.panels[1].stepVarNames = <<"step1", "step2", "missingStep">>
    /\ DOMAIN arg.stepData = {"step1", "step2"}
    /\ arg.stepData["step1"] # arg.stepData["step2"]
    /\ ret = <<[panelName |-> "Starting off",
                steps |-> <<arg.stepData["step1"], arg.stepData["step2"]>>]>>

(***************************************************************************)
(* resolveItemRequirements on reference lists and resolved maps            *)
(***************************************************************************)
\* the most references getItemRequirements lists
MaxNames == 3

NameLists == UNION {[1..n -> ReqVars] : n \in 0..MaxNames}
\* the maps parseSetupRequirements returns: a display text, which
\* new ItemRequirement("" leaves empty, for some of the variables
ResolvedMaps == UNION {[vs -> Displays \cup {"Bucket"}] : vs \in SUBSET ReqVars}

InitResolve ==
    /\ BatchIdle
    /\ UiIdle
    /\ fn = "none"
    /\ arg \in {[varNames |-> ns, setupReqs |-> m] : ns \in NameLists, m \in ResolvedMaps}
    /\ ret = << >>

CallResolve ==
    /\ fn = "none"
    /\ fn' = "resolveItemRequirements"
    /\ ret' = resolveItemRequirements(arg.varNames, arg.setupReqs)
    /\ UNCHANGED <<arg, batchVars, uiVars>>

NextResolve == CallResolve

SpecResolve == InitResolve /\ [][NextResolve]_vars

\* the positions of the references the map resolves to the display text d
PositionsOf(d) ==
    {i \in 1..Len(arg.varNames) :
        arg.varNames[i] \in DOMAIN arg.setupReqs /\ arg.setupReqs[arg.varNames[i]] = d}
\* the least of a non-empty set of positions
First(ps) == CHOOSE i \in ps : \A j \in ps : i <= j

\* C12: the result holds the display strings the referenced names resolve
\* to, each exactly once, in the order of their first occurrence; a name
\* the map does not resolve adds nothing.
C12_DistinctDisplaysInFirstSeenOrder ==
    fn = "resolveItemRequirements" =>
        /\ \A i, j \in 1..Len(ret) : i # j => ret[i] # ret[j]
        /\ {ret[i] : i \in 1..Len(ret)}
              = {arg.setupReqs[arg.varNames[i]] :
                    i \in {k \in 1..Len(arg.varNames) : arg.varNames[k] \in DOMAIN arg.setupReqs}}
        /\ \A i, j \in 1..Len(ret) :
              (i < j /\ PositionsOf(ret[i]) # {} /\ PositionsOf(ret[j]) # {})
                  => First(PositionsOf(ret[i])) < First(PositionsOf(ret[j]))

(***************************************************************************)
(* Claims about the order of the orchestrator's steps                      *)
(***************************************************************************)
\* the inputs whose fetch, extraction or write is under way
Active == {j \in 1..Len(phase) : phase[j] \in {"Fetching", "Extracting", "Writing"}}

\* the steps of one input follow one another in the order fetch, extract, write
PhaseSteps ==
    {<<"Pending", "Fetching">>, <<"Fetching", "Extracting">>, <<"Fetching", "Skipped">>,
     <<"Extracting", "Writing">>, <<"Writing", "Done">>, <<"Writing", "Skipped">>}

\* at most one input is under way, and the inputs before it are over
OneAtATime ==
    /\ Cardinality(Active) <= 1
    /\ \A j \in 1..Len(phase) :
          phase[j] # "Pending" => \A i \in 1..(j - 1) : phase[i] \in {"Done", "Skipped"}

\* C13: the pipeline is sequential: the steps of an input occur in the
\* order fetch, extract, write; no step of the next input starts before
\* the current one is written or skipped; at most one input is in
\* Fetching, Extracting or Writing.
C13_PipelineIsSequential ==
    /\ []OneAtATime
    /\ [][Len(phase') = Len(phase) =>
            \A j \in 1..Len(phase) :
                phase'[j] = phase[j] \/ <<phase[j], phase'[j]>> \in PhaseSteps]_vars

\* the second of three inputs is being written after the first was written
C13_Witness ==
    /\ pc = "writing"
    /\ phase = <<"Done", "Writing", "Pending">>
    /\ Len(fetched) = 2

(***************************************************************************)
(* The output key of an input.  A display name is a sequence of            *)
(* characters: a lower-case letter, an upper-case letter, an apostrophe or *)
(* a blank.                                                                *)
(***************************************************************************)
\* the most characters a display name has
MaxNameLen == 3

NameChars == {"a", "A", "'", " "}
DisplayNames == UNION {[1..n -> NameChars] : n \in 1..MaxNameLen}

toUpperCase(c) == IF c = "a" THEN "A" ELSE c
toLowerCase(c) == IF c = "A" THEN "a" ELSE c

\* the first position from i on that holds no blank
RECURSIVE SkipBlanks(_, _)
SkipBlanks(s, i) == IF i <= Len(s) /\ s[i] = " " THEN SkipBlanks(s, i + 1) ELSE i

\* s.split(/\s+/) from position i on, piece being the characters read
\* since the last separator
RECURSIVE SplitFrom(_, _, _)
SplitFrom(s, i, piece) ==
    IF i > Len(s) THEN <<piece>>
    ELSE IF s[i] = " " THEN <<piece>> \o SplitFrom(s, SkipBlanks(s, i), << >>)
    ELSE SplitFrom(s, i + 1, Append(piece, s[i]))

\* word.charAt(0).toUpperCase() + word.slice(1).toLowerCase()
Capitalise(word) ==
    [j \in 1..Len(word) |-> IF j = 1 THEN toUpperCase(word[j]) ELSE toLowerCase(word[j])]

\* displayNameToClassName on the characters of a name
displayNameToClassNameText(name) ==
    LET words == SplitFrom(SelectSeq(name, LAMBDA c : c # "'"), 1, << >>) IN
    Flatten([j \in 1..Len(words) |-> Capitalise(words[j])])

\* classNameToFolder on the characters of a class name
classNameToFolderText(name) == [j \in 1..Len(name) |-> toLowerCase(name[j])]

\* the class the file served for a display name declares, if it declares one
ServedClassName(displayName, declares) ==
    IF declares THEN displayNameToClassNameText(displayName) ELSE << >>

\* const slug = className ? classNameToFolder(className)
\*                        : classNameToFolder(displayNameToClassName(displayName))
SlugOf(className, displayName) ==
    IF className # << >> THEN classNameToFolderText(className)
    ELSE classNameToFolderText(displayNameToClassNameText(displayName))

\* two distinct entries of the approved list; the files fetched for them
\* declare their class, or neither does
InitKey ==
    /\ BatchIdle
    /\ UiIdle
    /\ fn = "none"
    /\ arg \in {[names |-> <<a, b>>, declares |-> d] :
                   a \in DisplayNames, b \in DisplayNames, d \in BOOLEAN}
    /\ arg.names[1] # arg.names[2]
    /\ ret = << >>

CallSlugOf ==
    /\ fn = "none"
    /\ fn' = "slug"
    /\ ret' = [j \in 1..2 |->
                  SlugOf(ServedClassName(arg.names[j], arg.declares), arg.names[j])]
    /\ UNCHANGED <<arg, batchVars, uiVars>>

NextKey == CallSlugOf

SpecKey == InitKey /\ [][NextKey]_vars

\* C14: two distinct approved inputs of one batch have distinct output
\* keys, so no output file is written twice.
C14_OutputKeysAreDistinct ==
    fn = "slug" => ret[1] # ret[2]

(***************************************************************************)
(* Claims about what the assembled record depends on                       *)
(***************************************************************************)
\* the fields of a record the extractors fill
ExtractedFields(d) ==
    [questPoints |-> d.questPoints,
     experienceRewards |-> d.experienceRewards,
     lampRewards |-> d.lampRewards,
     skillRequirements |-> d.skillRequirements,
     questRequirements |-> d.questRequirements,
     questPointRequirement |-> d.questPointRequirement,
     itemRequirements |-> d.itemRequirements,
     steps |-> d.steps]

C16_UnreadableListEndsTheBatch ==
    /\ [](LogOf("read-failed") # << >> =>
             /\ pc = "exited"
             /\ fetched = << >>
             /\ files = EmptyMap
             /\ phase = << >>
             /\ Len(log) = 1)
    /\ [][pc # "exited"]_vars

\* the read has failed and the process has exited
C16_Witness ==
    /\ pc = "exited"
    /\ LogOf("read-failed") # << >>
    /\ fetched = << >>

\* the entries the log holds about the j-th input: a success entry names
\* the file written for it, a skip entry names the input
EntriesAbout(j) ==
    SelectSeq(log, LAMBDA e : \/ e.kind \in {"skip-fetch", "skip-write"} /\ e.name = toProcess[j]
                              \/ e.kind = "wrote" /\ phase[j] = "Done"
                                   /\ e.name \in {Extraction(src, toProcess[j]).slug :
                                                     src \in BatchSources \ {SrcCycle}})

\* the final entry a batch with w inputs written and s inputs skipped is to log
FinalCount(w, s) == [kind |-> "done", name |-> "", written |-> w, skipped |-> s]

\* C17: when the batch finishes, the log holds an entry for every approved
\* input, a success or a skip, and ends with the count of the inputs
\* written and of the inputs skipped.
C17_LogEndsWithCounts ==
    pc = "done" =>
        /\ \A j \in 1..Len(toProcess) : EntriesAbout(j) # << >>
        /\ Len(LogOf("wrote")) + Len(LogOf("skip-fetch")) + Len(LogOf("skip-write"))
              = Len(toProcess)
        /\ log[Len(log)] = FinalCount(Cardinality({j \in 1..Len(phase) : phase[j] = "Done"}),
                                       Cardinality({j \in 1..Len(phase) : phase[j] = "Skipped"}))

(***************************************************************************)
(* parseLampRewards on item-reward bodies                                  *)
(***************************************************************************)
\* the most reward constructors an item-rewards body has
MaxRewards == 2

\* what the field patterns find in a constructor's text: nothing, or values
FieldSets ==
    {[skills |-> Undefined, value |-> NoNumber, quantity |-> NoNumber],
     [skills |-> "Attack", value |-> 2500, quantity |-> 2],
     [skills |-> "Any combat", value |-> 500, quantity |-> 3]}

\* first string arguments: "lamp" in every mix of letter cases, and "cake"
LampSpellings == [1..4 -> BOOLEAN]
Spelled(up) ==
    <<IF up[1] THEN "L" ELSE "l", IF up[2] THEN "A" ELSE "a",
      IF up[3] THEN "M" ELSE "m", IF up[4] THEN "P" ELSE "p">>
RewardNames == {Spelled(up) : up \in LampSpellings} \cup {<<"c", "a", "k", "e">>}

RewardToks ==
    {LampRewardTok(f.skills, f.value, f.quantity) : f \in FieldSets}
    \cup {ItemRewardTok(n, f.skills, f.value, f.quantity) : n \in RewardNames, f \in FieldSets}
RewardBodies == UNION {[1..n -> RewardToks] : n \in 0..MaxRewards}

InitLamp ==
    /\ BatchIdle
    /\ UiIdle
    /\ fn = "none"
    /\ arg \in {[body |-> b] : b \in RewardBodies}
    /\ ret = NullLamp

CallParseLampRewards ==
    /\ fn = "none"
    /\ fn' = "parseLampRewards"
    /\ ret' = parseLampRewards(MethodDecl("public", "getItemRewards", arg.body))
    /\ UNCHANGED <<arg, batchVars, uiVars>>

NextLamp == CallParseLampRewards

SpecLamp == InitLamp /\ [][NextLamp]_vars

\* the record of a constructor: its fields, the defaults where it has none
LampRecord(t) ==
    [skills |-> IF t.v.skills = Undefined THEN "Any" ELSE t.v.skills,
     value |-> IF t.v.value = NoNumber THEN 0 ELSE t.v.value,
     quantity |-> IF t.v.quantity = NoNumber THEN 1 ELSE t.v.quantity]

\* the explicit lamp-reward constructors of the body, in source order
ExplicitLamps == SelectSeq(arg.body, LAMBDA t : t.k = "LampReward")

\* the name holds the letters l, a, m, p in a row, in whatever case
MentionsLamp(name) ==
    \E i \in 1..(Len(name) - 3) :
        /\ name[i] \in {"l", "L"} /\ name[i + 1] \in {"a", "A"}
        /\ name[i + 2] \in {"m", "M"} /\ name[i + 3] \in {"p", "P"}

\* the generic reward constructors whose name mentions a lamp
GenericLamps == SelectSeq(arg.body, LAMBDA t : t.k = "ItemReward" /\ MentionsLamp(t.v.name))

\* C18: when the body holds an explicit lamp-reward constructor and a
\* generic reward constructor that mentions a lamp, the fields come from
\* the explicit constructor, whichever of the two is first in the source.
C18_ExplicitLampPatternWins ==
    (fn = "parseLampRewards" /\ ExplicitLamps # << >> /\ GenericLamps # << >>)
        => ret = LampRecord(ExplicitLamps[1])

\* C19: a generic reward constructor whose first string argument holds
\* "lamp" in any letter case gives a lamp record; the result is none only
\* when the body has no lamp construct at all; a field that is not found
\* has its default, "Any", 0 or 1.
C19_LampInAnyLetterCase ==
    fn = "parseLampRewards" =>
        /\ ret = NullLamp <=> (ExplicitLamps = << >> /\ GenericLamps = << >>)
        /\ (ExplicitLamps = << >> /\ GenericLamps # << >>) => ret = LampRecord(GenericLamps[1])

(***************************************************************************)
(* parseExperienceRewards on experience-reward bodies                      *)
(***************************************************************************)
\* the most constructors an experience-rewards body has
MaxXp == 3

\* new ExperienceReward(Skill.X, n, true): a third argument, which the
\* pattern's closing parenthesis after the number does not allow
ExperienceRewardWithFlagTok(skill, xp) == [k |-> "ExperienceRewardWithFlag", v |-> <<skill, xp>>]

XpToks ==
    {ExperienceRewardTok(sk, xp) : sk \in {"COOKING", "FIREMAKING"}, xp \in {250, 500}}
    \cup {ExperienceRewardWithFlagTok("COOKING", 500), Other}
XpBodies == UNION {[1..n -> XpToks] : n \in 0..MaxXp}

InitXp ==
    /\ BatchIdle
    /\ UiIdle
    /\ fn = "none"
    /\ arg \in {[body |-> b] : b \in XpBodies}
    /\ ret = << >>

CallParseExperienceRewards ==
    /\ fn = "none"
    /\ fn' = "parseExperienceRewards"
    /\ ret' = parseExperienceRewards(MethodDecl("public", "getExperienceRewards", arg.body))
    /\ UNCHANGED <<arg, batchVars, uiVars>>

NextXp == CallParseExperienceRewards

SpecXp == InitXp /\ [][NextXp]_vars

\* the positions of the two-argument occurrences in the body
Occurrences == {i \in 1..Len(arg.body) : arg.body[i].k = "ExperienceReward"}

\* C20: the result has one record per two-argument ExperienceReward
\* occurrence of the body, in source order and without deduplication.
C20_OneRecordPerOccurrence ==
    fn = "parseExperienceRewards" =>
        /\ Len(ret) = Cardinality(Occurrences)
        /\ \A i \in Occurrences :
              ret[Cardinality({q \in Occurrences : q <= i})]
                  = [skill |-> arg.body[i].v[1], xp |-> arg.body[i].v[2]]

\* two identical occurrences around another one give three records
C20_Witness ==
    /\ fn = "parseExperienceRewards"
    /\ arg.body = <<ExperienceRewardTok("COOKING", 500), ExperienceRewardTok("FIREMAKING", 250),
                     ExperienceRewardTok("COOKING", 500)>>
    /\ ret = <<[skill |-> "COOKING", xp |-> 500], [skill |-> "FIREMAKING", xp |-> 250],
                [skill |-> "COOKING", xp |-> 500]>>

(***************************************************************************)
(* parseGeneralRequirements on bodies with quest prerequisites             *)
(***************************************************************************)
\* the most requirement constructors a general-requirements body has
MaxReqs == 3

QuestIds == {"COOKS_ASSISTANT", "rune_mysteries", "Rune_Mysteries"}
ReqToks == {QuestRequirementTok(q) : q \in QuestIds}
           \cup {SkillRequirementTok("COOKING", 10), Other}
ReqBodies == UNION {[1..n -> ReqToks] : n \in 0..MaxReqs}

\* the body with a copy of its i-th element put in after its p-th element
WithRepeat(body, i, p) ==
    SubSeq(body, 1, p) \o <<body[i]>> \o SubSeq(body, p + 1, Len(body))

\* a body, and the place of a repeated quest reference (none: i = 0)
InitQuests ==
    /\ BatchIdle
    /\ UiIdle
    /\ fn = "none"
    /\ arg \in {[body |-> b, i |-> i, p |-> p] :
                   b \in ReqBodies, i \in 0..MaxReqs, p \in 0..MaxReqs}
    /\ \/ arg.i = 0 /\ arg.p = 0
       \/ /\ arg.i \in 1..Len(arg.body)
          /\ arg.body[arg.i].k = "QuestRequirement"
          /\ arg.p \in arg.i..Len(arg.body)
    /\ ret = [once |-> << >>, repeated |-> << >>]

CallParseGeneralRequirements ==
    /\ fn = "none"
    /\ fn' = "parseGeneralRequirements"
    /\ ret' = [once |->
                  parseGeneralRequirements(
                      MethodDecl("public", "getGeneralRequirements", arg.body)).questRequirements,
               repeated |->
                  IF arg.i = 0 THEN << >>
                  ELSE parseGeneralRequirements(
                           MethodDecl("public", "getGeneralRequirements",
                                      WithRepeat(arg.body, arg.i, arg.p))).questRequirements]
    /\ UNCHANGED <<arg, batchVars, uiVars>>

NextQuests == CallParseGeneralRequirements

SpecQuests == InitQuests /\ [][NextQuests]_vars

\* the positions of the references to the quest whose display string is d
RefsTo(d) ==
    {j \in 1..Len(arg.body) :
        arg.body[j].k = "QuestRequirement" /\ questEnumToDisplay(arg.body[j].v) = d}

\* C21: questRequirements holds the display string of each referenced
\* quest exactly once, in the order of the first references, and a
\* repeated reference leaves it unchanged.
C21_RepeatedQuestReferenceChangesNothing ==
    fn = "parseGeneralRequirements" =>
        /\ \A a, b \in 1..Len(ret.once) : a # b => ret.once[a] # ret.once[b]
        /\ {ret.once[a] : a \in 1..Len(ret.once)}
              = {questEnumToDisplay(arg.body[j].v) :
                    j \in {k \in 1..Len(arg.body) : arg.body[k].k = "QuestRequirement"}}
        /\ \A a, b \in 1..Len(ret.once) :
              a < b => First(RefsTo(ret.once[a])) < First(RefsTo(ret.once[b]))
        /\ arg.i # 0 => ret.repeated = ret.once

\* two quests, the first referenced again after the second
C21_Witness ==
    /\ fn = "parseGeneralRequirements"
    /\ arg.body = <<QuestRequirementTok("COOKS_ASSISTANT"), QuestRequirementTok("rune_mysteries")>>
    /\ arg.i = 1
    /\ arg.p = 2
    /\ ret.once = <<"COOKS ASSISTANT", "Rune Mysteries">>
    /\ ret.repeated = ret.once


(***************************************************************************)
(* The panels of getPanels: a body of PanelDetails calls, one per title,   *)
(* each with a list syntax and the elements of its list.                   *)
(***************************************************************************)
MaxElems == 2
ListSyntaxes == {"List.of", "Arrays.asList", "Collections.singletonList"}
\* elements: two step variables, a number-led token, a call
PanelElems == {<<"step1">>, <<"step2">>, <<"1st">>, <<"getStep()">>}
ElemLists == UNION {[1..n -> PanelElems] : n \in 0..MaxElems}
PanelCalls == [syntax : ListSyntaxes, elems : ElemLists]

PanelBody(calls) ==
    [j \in 1..Len(calls) |-> PanelDetailsTok(PanelTitles[j], calls[j].syntax, calls[j].elems)]

InitPanels ==
    /\ BatchIdle
    /\ UiIdle
    /\ fn = "none"
    /\ arg \in {[calls |-> c] : c \in UNION {[1..n -> PanelCalls] : n \in 0..Len(PanelTitles)}}
    /\ ret = << >>

CallParsePanels ==
    /\ fn = "none"
    /\ fn' = "parsePanels"
    /\ ret' = parsePanels(MethodDecl("public", "getPanels", PanelBody(arg.calls)))
    /\ UNCHANGED <<arg, batchVars, uiVars>>

NextPanels == CallParsePanels

SpecPanels == InitPanels /\ [][NextPanels]_vars

\* the well-formed identifiers of a list argument, in source order
WellFormedOf(elems) ==
    SelectSeq([j \in 1..Len(elems) |-> LastPiece(elems[j])], LAMBDA n : IsIdentifier(n))

\* C22: parsePanels returns one grouping per PanelDetails("title", list)
\* call, in source order, for each of the three list syntaxes; the step
\* references of a grouping are the well-formed identifiers of the list
\* argument in source order, the other tokens are dropped.
C22_OneGroupingPerPanelCall ==
    fn = "parsePanels" =>
        ret = [j \in 1..Len(arg.calls) |->
                  [panelName |-> PanelTitles[j],
                   stepVarNames |-> WellFormedOf(arg.calls[j].elems)]]


(***************************************************************************)
(* The item-requirement references of getItemRequirements: a body in one   *)
(* of the two syntaxes, an inline list literal or repeated add calls.      *)
(***************************************************************************)
MaxItems == 3
ItemForms == {"List.of", "Arrays.asList", "add"}
\* elements: two variables, a number-led token, a call
ItemElems == {"bucket", "rope", "1st", "getStep()"}
ItemLists == UNION {[1..n -> ItemElems] : n \in 0..MaxItems}

ItemBody(form, items) ==
    CASE form = "List.of" -> <<ListOfTok([j \in 1..Len(items) |-> <<items[j]>>])>>
      [] form = "Arrays.asList" -> <<AsListTok([j \in 1..Len(items) |-> <<items[j]>>])>>
      [] form = "add" -> [j \in 1..Len(items) |-> AddTok(items[j])]

InitItems ==
    /\ BatchIdle
    /\ UiIdle
    /\ fn = "none"
    /\ arg \in [form : ItemForms, items : ItemLists]
    /\ ret = << >>

CallParseItemRequirementVarNames ==
    /\ fn = "none"
    /\ fn' = "parseItemRequirementVarNames"
    /\ ret' = parseItemRequirementVarNames(
                  MethodDecl("public", "getItemRequirements", ItemBody(arg.form, arg.items)))
    /\ UNCHANGED <<arg, batchVars, uiVars>>

NextItems == CallParseItemRequirementVarNames

SpecItems == InitItems /\ [][NextItems]_vars

\* C23: in each of the two syntaxes, the elements of an inline list
\* literal or the arguments of repeated add calls, the result is the
\* well-formed identifiers among them in source order; the other tokens
\* are dropped.
C23_BothSyntaxesGiveTheIdentifiers ==
    fn = "parseItemRequirementVarNames" =>
        ret = SelectSeq(arg.items, IsIdentifier)


(***************************************************************************)
(* parse-wiki-ids: the table of a wiki page.  A row is its number of td    *)
(* cells, the text of the first cell (words, '#' and blanks) and the id    *)
(* values of the links of the second cell (digits and letters).            *)
(***************************************************************************)
Hash == "#"
Blank == " "

\* String.prototype.trim on a text of words, '#' and blanks
RECURSIVE trimStart(_)
trimStart(text) ==
    IF text # << >> /\ Head(text) = Blank THEN trimStart(Tail(text)) ELSE text
RECURSIVE trimEnd(_)
trimEnd(text) ==
    IF text # << >> /\ text[Len(text)] = Blank
    THEN trimEnd(SubSeq(text, 1, Len(text) - 1)) ELSE text
trim(text) == trimEnd(trimStart(text))

\* rawName.split("#")[0].trim()
parseName(rawName) ==
    LET hs == {j \in 1..Len(rawName) : rawName[j] = Hash}
        cut == IF hs = {} THEN Len(rawName) + 1
               ELSE CHOOSE j \in hs : \A q \in hs : j <= q
    IN  trim(SubSeq(rawName, 1, cut - 1))

\* /^\d+$/ and parseInt(value, 10)
IsDigit(c) == c \in {"0", "1", "2", "3", "4", "5", "6", "7", "8", "9"}
IsNumeric(value) == value # << >> /\ \A j \in 1..Len(value) : IsDigit(value[j])
DigitOf(c) ==
    CASE c = "0" -> 0 [] c = "1" -> 1 [] c = "2" -> 2 [] c = "3" -> 3 [] c = "4" -> 4
      [] c = "5" -> 5 [] c = "6" -> 6 [] c = "7" -> 7 [] c = "8" -> 8 [] c = "9" -> 9
RECURSIVE parseInt(_)
parseInt(value) ==
    IF value = << >> THEN 0
    ELSE 10 * parseInt(SubSeq(value, 1, Len(value) - 1)) + DigitOf(value[Len(value)])

\* the id values of the links of the cell that are numeric, as numbers
parseIdsFromCell(cell) ==
    LET numeric == SelectSeq(cell, IsNumeric) IN
    [j \in 1..Len(numeric) |-> parseInt(numeric[j])]

\* the names every object inherits from Object.prototype, among the names
\* of the model; out[name] of such a name is a function, not a list
InheritedNames == {<<"constructor">>}

\* what parseWikiTable gives: the object it returns, or the error it throws
Returned(out) == [threw |-> "", out |-> out]
TypeError == [threw |-> "TypeError", out |-> EmptyMap]

\* for (const id of numericIds) if (!existing.has(id)) out[name].push(id)
RECURSIVE PushNewIds(_, _)
PushNewIds(numericIds, list) ==
    IF numericIds = << >> THEN list
    ELSE PushNewIds(Tail(numericIds),
                    IF \E j \in 1..Len(list) : list[j] = Head(numericIds)
                    THEN list ELSE Append(list, Head(numericIds)))

\* for (const tr of rows) { ... } on the plain object out
RECURSIVE parseRows(_, _)
parseRows(rows, out) ==
    IF rows = << >> THEN Returned(out)
    ELSE LET tr == Head(rows) IN
         IF tr.cells < 2 THEN parseRows(Tail(rows), out)
         ELSE LET name == parseName(trim(tr.text)) IN
              IF name = << >> THEN parseRows(Tail(rows), out)
              ELSE LET numericIds == parseIdsFromCell(tr.ids) IN
                   IF numericIds = << >> THEN parseRows(Tail(rows), out)
                   ELSE IF name \in DOMAIN out
                        THEN parseRows(Tail(rows),
                                 MapSet(out, name, PushNewIds(numericIds, out[name])))
                        \* out[name] is inherited and truthy: new Set(out[name]) throws
                        ELSE IF name \in InheritedNames THEN TypeError
                        ELSE parseRows(Tail(rows),
                                 MapSet(out, name, PushNewIds(numericIds, << >>)))

NoTable == [threw |-> "No table.wikitable found in page", out |-> EmptyMap]

\* the rows of the first table.wikitable of the page
parseWikiTable(tables) ==
    IF Len(tables) = 0 THEN NoTable ELSE parseRows(tables[1], EmptyMap)

MaxText == 2
MaxDigits == 2
MaxLinks == 1
MaxRows == 2
TextUnits == {"Man", "constructor", Hash, Blank}
Texts == UNION {[1..n -> TextUnits] : n \in 0..MaxText}
IdValues == UNION {[1..n -> {"7", "h"}] : n \in 1..MaxDigits}
Cells == UNION {[1..n -> IdValues] : n \in 0..MaxLinks}
WikiRows == [cells : {2}, text : Texts, ids : Cells]
               \cup [cells : {1}, text : Texts, ids : {<< >>}]
WikiTables == UNION {[1..n -> WikiRows] : n \in 0..MaxRows}

InitWiki ==
    /\ BatchIdle
    /\ UiIdle
    /\ fn = "none"
    /\ arg \in {[tables |-> << >>]} \cup {[tables |-> <<t>>] : t \in WikiTables}
    /\ ret = Returned(EmptyMap)

CallParseWikiTable ==
    /\ fn = "none"
    /\ fn' = "parseWikiTable"
    /\ ret' = parseWikiTable(arg.tables)
    /\ UNCHANGED <<arg, batchVars, uiVars>>

NextWiki == CallParseWikiTable

SpecWiki == InitWiki /\ [][NextWiki]_vars

\* the display name of a row: the first-column text before the first '#', trimmed
DisplayNameOf(tr) == parseName(tr.text)
\* the numeric IDs of a row, as a set
NumericIdsOf(tr) == {parseInt(tr.ids[j]) : j \in {q \in 1..Len(tr.ids) : IsNumeric(tr.ids[q])}}
RowsNamed(name) ==
    {j \in 1..Len(arg.tables[1]) : DisplayNameOf(arg.tables[1][j]) = name}

\* C24: a display name is a key of the output if and only if a row with
\* that name has a numeric ID; the key holds the numeric IDs of all the
\* rows with that name and nothing else.
C24_KeysAreNamesWithNumericIds ==
    (fn = "parseWikiTable" /\ arg.tables # << >>) =>
        /\ ret.threw = ""
        /\ \A name \in {parseName(t) : t \in Texts} :
               name \in DOMAIN ret.out
                   <=> \E j \in RowsNamed(name) : NumericIdsOf(arg.tables[1][j]) # {}
        /\ \A name \in DOMAIN ret.out :
               {ret.out[name][j] : j \in 1..Len(ret.out[name])}
                   = UNION {NumericIdsOf(arg.tables[1][j]) : j \in RowsNamed(name)}


(***************************************************************************)
(* The look-ahead of the string reader, under SpecStr                      *)
(***************************************************************************)
\* the characters of a unit the reader keeps: a character between the
\* quotes; an escape pair is stepped over, a join is between two fragments
UnitKept(u) == IF u \in {"a", "+"} THEN UnitText(u) ELSE << >>

\* the fragments of the literals that a + joins quote to quote
JoinedLiterals == Flatten([j \in 1..Len(arg.units) |-> UnitKept(arg.units[j])])

\* C25: after a closing quote the reader goes on only over a + that an
\* opening quote follows, whitespace aside; otherwise it returns the
\* fragments read so far: for "a" + name + "b" only the fragments before
\* the operand that is not a literal.
C25_StopsAtNonLiteralOperand ==
    fn = "readConcatenatedString" => ret = JoinedLiterals

C25_Witness ==
    /\ fn = "readConcatenatedString"
    /\ \E j \in 1..Len(arg.units) : arg.units[j] \in JoinUnits
    /\ Len(arg.tail) > 1 /\ arg.tail[2] = Plus
    /\ ret = JoinedLiterals /\ ret # << >>


(***************************************************************************)
(* WorldMapLabels (components/map/WorldMapLabels.tsx): the labels of the   *)
(* world map, filtered by zoom level and text scale.  A label is its text  *)
(* scale and its sailing flag.                                             *)
(***************************************************************************)
\* zoom, minZoom and maxZoom of the MapContainer; the zoom state's start
MapZoom == 4
MinZoom == 1
MaxZoom == 6
StateZoom == 3

MaxLabels == 2
TextScales == {0, 1, 2}
MapMarkers == [textScale : TextScales, sailing : BOOLEAN]
LabelLists == UNION {[1..n -> MapMarkers] : n \in 0..MaxLabels}

\* the filter of visibleLabels: the switch on zoom
IsVisible(label, zoom) ==
    IF label.sailing THEN FALSE
    ELSE CASE zoom \in {1, 2} -> label.textScale = 2
           [] zoom = 3 -> label.textScale = 1
           [] OTHER -> label.textScale = 1 \/ label.textScale = 0

\* what the component renders: null while loading, else a Marker per
\* visible label
Render(v) ==
    [v EXCEPT !.markers = IF v.loading THEN << >>
                          ELSE SelectSeq(v.labels, LAMBDA l : IsVisible(l, v.zoom))]

\* the first render: the useState values; the effects have not run yet
InitLabels ==
    /\ BatchIdle
    /\ fn = "none" /\ arg = << >> /\ ret = << >>
    /\ mapView = NotMounted /\ draggable = NotMounted
    /\ labelsView = Render([mounted |-> TRUE, labels |-> << >>, loading |-> TRUE,
                            zoom |-> StateZoom, map |-> MapZoom, effects |-> "pending",
                            load |-> "none", markers |-> << >>])

\* the two effects after the first render: loadLabels() is called, the
\* zoomend handler is registered, setZoom(map.getZoom())
RunEffects ==
    /\ labelsView.mounted /\ labelsView.effects = "pending"
    /\ labelsView' = Render([labelsView EXCEPT !.effects = "ran", !.load = "pending",
                                                !.zoom = labelsView.map])
    /\ UNCHANGED <<batchVars, fnVars, mapView, draggable>>

\* await loadWorldMapLabels() resolves: setLabels, then setLoading(false)
LoadLabelsOk ==
    /\ labelsView.mounted /\ labelsView.load = "pending"
    /\ \E loaded \in LabelLists :
          labelsView' = Render([labelsView EXCEPT !.labels = loaded, !.loading = FALSE,
                                                   !.load = "done"])
    /\ UNCHANGED <<batchVars, fnVars, mapView, draggable>>

\* it rejects: the error is logged, setLoading(false)
LoadLabelsFails ==
    /\ labelsView.mounted /\ labelsView.load = "pending"
    /\ labelsView' = Render([labelsView EXCEPT !.loading = FALSE, !.load = "failed"])
    /\ UNCHANGED <<batchVars, fnVars, mapView, draggable>>

\* the user zooms the map; zoomend: handleZoom sets zoom to map.getZoom()
ZoomEnd ==
    /\ labelsView.mounted /\ labelsView.effects = "ran"
    /\ \E z \in MinZoom..MaxZoom :
          /\ z # labelsView.map
          /\ labelsView' = Render([labelsView EXCEPT !.map = z, !.zoom = z])
    /\ UNCHANGED <<batchVars, fnVars, mapView, draggable>>

\* the cleanup of the zoom effect: map.off; the component is gone
UnmountLabels ==
    /\ labelsView.mounted /\ labelsView.effects = "ran"
    /\ labelsView' = NotMounted
    /\ UNCHANGED <<batchVars, fnVars, mapView, draggable>>

NextLabels == RunEffects \/ LoadLabelsOk \/ LoadLabelsFails \/ ZoomEnd \/ UnmountLabels

SpecLabels == InitLabels /\ [][NextLabels]_vars

\* the zoom levels the comment of the filter gives to a text scale
ZoomsOf(textScale) ==
    CASE textScale = 0 -> {1, 2}
      [] textScale = 1 -> {3, 4}
      [] textScale = 2 -> {5, 6}

\* C26: a label that is not a sailing label is shown exactly at the zoom
\* levels of its text scale: 0 at zoom 1 and 2, 1 at zoom 3 and 4, 2 at
\* zoom 5 and 6.
C26_LabelShownAtTheZoomsOfItsScale ==
    (labelsView.mounted /\ ~labelsView.loading) =>
        \A j \in 1..Len(labelsView.labels) :
            ~labelsView.labels[j].sailing =>
                ((\E q \in 1..Len(labelsView.markers) :
                      labelsView.markers[q] = labelsView.labels[j])
                    <=> labelsView.zoom \in ZoomsOf(labelsView.labels[j].textScale))


(***************************************************************************)
(* The brace scan of the locator, under SpecLocate                         *)
(***************************************************************************)
\* the source of SpecLocate and where the declaration pattern ends in it
LocateSource == <<Other, Ws>> \o DeclHeader(arg.decl) \o arg.tail
LocateStart == MatchDecl(LocateSource, "getPanels")

\* the depth never returns to zero before the source ends
Unbalanced == ~\E body \in Prefixes(arg.tail) : BodyOf(arg.tail, body)

\* C27: the brace scan ends within the source, whatever the source; when
\* the braces of the body are unbalanced the result is not the not-found
\* value but the rest of the source after the opening brace, without its
\* last character.
C27_UnbalancedBodyIsTheRestCut ==
    (fn = "extractMethodBody" /\ LocateStart # -1) =>
        /\ ScanBraces(LocateSource, LocateStart, 1) \in LocateStart..Len(LocateSource)
        /\ Unbalanced =>
              /\ ret # Null
              /\ ret = SubSeq(arg.tail, 1, Len(arg.tail) - 1)

C27_Witness ==
    /\ fn = "extractMethodBody" /\ LocateStart # -1
    /\ Unbalanced
    /\ arg.tail = <<Other, LBrace, Other, RBrace>>
    /\ ret = <<Other, LBrace, Other>>


(***************************************************************************)
(* Fetch before extraction and write, under SpecBatch                      *)
(***************************************************************************)
\* the fetch of input j failed: its skip was logged
FetchFailed(j) ==
    \E e \in 1..Len(log) : log[e].kind = "skip-fetch" /\ log[e].name = toProcess[j]

\* an input is extracted or written only after its fetch, which did not
\* fail; an input whose fetch failed stays skipped
FetchedFirst ==
    \A j \in 1..Len(phase) :
        /\ FetchFailed(j) => phase[j] = "Skipped"
        /\ phase[j] \in {"Extracting", "Writing", "Done"} =>
              /\ \E k \in 1..Len(fetched) : fetched[k] = toProcess[j]
              /\ ~FetchFailed(j)

\* the files are those of the inputs whose fetch and write succeeded
FilesAreTheWritten ==
    /\ Len(LogOf("wrote")) = Cardinality({j \in 1..Len(phase) : phase[j] = "Done"})
    /\ DOMAIN files = {LogOf("wrote")[e].name : e \in 1..Len(LogOf("wrote"))}

\* a file changes only when the input under way goes from Writing to Done,
\* and after one attempt to write the loop is at the next input
OneWritePerInput ==
    /\ idx' >= idx
    /\ files' # files =>
          /\ pc = "writing" /\ phase[idx + 1] = "Writing"
          /\ phase'[idx + 1] = "Done"
          /\ DOMAIN files' = DOMAIN files \cup {data.slug}
    /\ (pc = "writing" /\ pc' # "writing") => idx' = idx + 1

\* C28: an input is extracted and written only after its fetch succeeded,
\* with one attempt to write at most; an input whose fetch failed is never
\* extracted and has no file; the files written are those of the inputs
\* whose fetch and write both succeeded.
C28_OnlyFetchedInputsAreWritten ==
    /\ [](FetchedFirst /\ FilesAreTheWritten)
    /\ [][OneWritePerInput]_vars

\* the fetch of the second of three inputs failed; the others were written
C28_Witness ==
    /\ pc = "done"
    /\ phase = <<"Done", "Skipped", "Done">>
    /\ FetchFailed(2)
    /\ DOMAIN files # {}


(***************************************************************************)
(* OSRSMap (components/map/OSRSMap.tsx): the markers state, the click      *)
(* handler of LocationFinder and the load of the quest markers.  A pin is  *)
(* where it comes from and its point.                                      *)
(***************************************************************************)
MaxPins == 3
MaxQuestPins == 2
ClickPoints == {"A", "B"}
QuestPoints == {"Q1", "Q2"}
ClickPin(p) == [from |-> "click", at |-> p]
QuestPin(p) == [from |-> "quest", at |-> p]
\* what loadQuestMarkers resolves to: the pins of the quest files
QuestPinLists == UNION {[1..n -> {QuestPin(p) : p \in QuestPoints}] : n \in 0..MaxQuestPins}

\* after the first render and its effect: markers is [], the click handler
\* holds the markers of that render, loadQuestMarkers() is pending
InitMap ==
    /\ BatchIdle
    /\ fn = "none" /\ arg = << >> /\ ret = << >>
    /\ labelsView = NotMounted /\ draggable = NotMounted
    /\ mapView = [mounted |-> TRUE, markers |-> << >>, captured |-> << >>, load |-> "pending"]

\* click(e): setMarkers([...markers, pin]) with the markers the handler's
\* render captured
MapClick ==
    /\ mapView.mounted
    /\ Len(mapView.captured) < MaxPins
    /\ \E p \in ClickPoints :
          mapView' = [mapView EXCEPT !.markers = Append(mapView.captured, ClickPin(p))]
    /\ UNCHANGED <<batchVars, fnVars, labelsView, draggable>>

\* the render after a state change: LocationFinder and its click handler
\* are made anew with the markers of this render
MapRender ==
    /\ mapView.mounted
    /\ mapView.captured # mapView.markers
    /\ mapView' = [mapView EXCEPT !.captured = mapView.markers]
    /\ UNCHANGED <<batchVars, fnVars, labelsView, draggable>>

\* loadQuestMarkers() resolves: then(setMarkers)
LoadMarkersOk ==
    /\ mapView.mounted /\ mapView.load = "pending"
    /\ \E pins \in QuestPinLists :
          mapView' = [mapView EXCEPT !.markers = pins, !.load = "done"]
    /\ UNCHANGED <<batchVars, fnVars, labelsView, draggable>>

\* it rejects: there is no catch, the state is as it was
LoadMarkersFails ==
    /\ mapView.mounted /\ mapView.load = "pending"
    /\ mapView' = [mapView EXCEPT !.load = "failed"]
    /\ UNCHANGED <<batchVars, fnVars, labelsView, draggable>>

NextMap == MapClick \/ MapRender \/ LoadMarkersOk \/ LoadMarkersFails

SpecMap == InitMap /\ [][NextMap]_vars

\* how many times the pin is among the markers
PinCount(markers, pin) == Cardinality({j \in 1..Len(markers) : markers[j] = pin})

\* C29: a marker added by a click stays in markers in every later state:
\* no step, neither a later click nor the completion of the load of the
\* quest markers, takes a marker of a click away.
C29_ClickedMarkersStay ==
    [][\A p \in ClickPoints :
           PinCount(mapView'.markers, ClickPin(p)) >= PinCount(mapView.markers, ClickPin(p))]_vars


(***************************************************************************)
(* useDraggable (hooks/useDraggable.tsx): the position state, the          *)
(* dragStart ref and the listeners a mousedown puts on the window.  A      *)
(* point is a record of x and y; the ref is << >> for null, else <<p>>.    *)
(***************************************************************************)
\* the default of initial, for x and for y
InitialCoord == 100
\* how far the pointer is from initial at most, and the position
MaxPointer == 1
MaxDrag == 2
\* the most mousedowns without a mouseup between them (two buttons)
MaxDowns == 2

Point(x, y) == [x |-> x, y |-> y]
Minus(p, q) == Point(p.x - q.x, p.y - q.y)
Pointers == {Point(x, y) : x, y \in InitialCoord..(InitialCoord + MaxPointer)}
InReach(p) ==
    /\ p.x \in (InitialCoord - MaxDrag)..(InitialCoord + MaxDrag)
    /\ p.y \in (InitialCoord - MaxDrag)..(InitialCoord + MaxDrag)

\* after the first render: position is initial, the ref is null, no
\* listener is on the window; seen is the position the onMouseDown of the
\* latest render holds; held and down are the button and the offset of
\* the latest mousedown
InitDrag ==
    /\ BatchIdle
    /\ fn = "none" /\ arg = << >> /\ ret = << >>
    /\ labelsView = NotMounted /\ mapView = NotMounted
    /\ \E p \in Pointers :
          draggable = [mounted |-> TRUE,
                       position |-> Point(InitialCoord, InitialCoord),
                       seen |-> Point(InitialCoord, InitialCoord),
                       dragStart |-> << >>,
                       listeners |-> [mousemove |-> 0, mouseup |-> 0],
                       pointer |-> p, held |-> FALSE, down |-> << >>]

\* onMouseDown on the handle: the ref is the pointer minus the position,
\* a new onMouseMove and a new onMouseUp are added to the window
MouseDown ==
    /\ draggable.mounted
    /\ draggable.listeners.mousemove < MaxDowns
    /\ \E offset \in {Minus(draggable.pointer, draggable.seen)} :
          draggable' = [draggable EXCEPT
                           !.dragStart = <<offset>>,
                           !.listeners = [mousemove |-> @.mousemove + 1,
                                          mouseup |-> @.mouseup + 1],
                           !.held = TRUE, !.down = <<offset>>]
    /\ UNCHANGED <<batchVars, fnVars, labelsView, mapView>>

\* what every onMouseMove on the window does at pointer p
onMouseMove(d, p) ==
    IF d.listeners.mousemove = 0 \/ d.dragStart = << >> THEN d.position
    ELSE Minus(p, d.dragStart[1])

\* a move that takes the position to the pointer, without the offset
MouseMoveToPointer ==
    /\ draggable.mounted
    /\ \E p \in Pointers \ {draggable.pointer} :
          /\ draggable' = [draggable EXCEPT
                              !.pointer = p,
                              !.position = IF draggable.listeners.mousemove = 0
                                           THEN @ ELSE p]
    /\ UNCHANGED <<batchVars, fnVars, labelsView, mapView>>

\* the pointer moves: mousemove on the window
MouseMove ==
    /\ draggable.mounted
    /\ \E p \in Pointers \ {draggable.pointer} :
          /\ InReach(onMouseMove(draggable, p))
          /\ draggable' = [draggable EXCEPT !.pointer = p,
                                            !.position = onMouseMove(draggable, p)]
    /\ UNCHANGED <<batchVars, fnVars, labelsView, mapView>>

\* mouseup on the window: every onMouseUp nulls the ref and removes the
\* two listeners of its mousedown
MouseUp ==
    /\ draggable.mounted
    /\ draggable.listeners.mouseup > 0
    /\ draggable' = [draggable EXCEPT !.dragStart = << >>,
                                      !.listeners = [mousemove |-> 0, mouseup |-> 0],
                                      !.held = FALSE]
    /\ UNCHANGED <<batchVars, fnVars, labelsView, mapView>>

\* the render after setPosition: useCallback makes onMouseDown anew for
\* the new position
DragRender ==
    /\ draggable.mounted
    /\ draggable.seen # draggable.position
    /\ draggable' = [draggable EXCEPT !.seen = draggable.position]
    /\ UNCHANGED <<batchVars, fnVars, labelsView, mapView>>

NextDrag == MouseDown \/ MouseMove \/ MouseUp \/ DragRender

SpecDrag == InitDrag /\ [][NextDrag]_vars

\* while the button is held the listeners of the mousedown are on the
\* window and the ref is its offset; after the mouseup none is left
ListenersWhileHeld ==
    IF draggable.held
    THEN /\ draggable.listeners.mousemove > 0 /\ draggable.listeners.mouseup > 0
         /\ draggable.dragStart = draggable.down
    ELSE /\ draggable.listeners = [mousemove |-> 0, mouseup |-> 0]
         /\ draggable.dragStart = << >>

\* a move while the button is held takes the position to the pointer
\* minus the offset of the mousedown; any other move leaves it as it is
MoveFollowsOffset ==
    draggable'.pointer # draggable.pointer =>
        IF draggable.held
        THEN draggable'.position = Minus(draggable'.pointer, draggable.down[1])
        ELSE draggable'.position = draggable.position

\* C30: between a mousedown on the handle and the next mouseup every move
\* sets the position to the pointer minus the offset captured at the
\* mousedown; after the mouseup the two listeners of the mousedown are
\* removed and a move leaves the position unchanged until the next
\* mousedown.
C30_DragFollowsPointerUntilMouseUp ==
    /\ []ListenersWhileHeld
    /\ [][MoveFollowsOffset]_vars

\* after a drag that moved the box, the button is up and the pointer has
\* moved on without the box
C30_Witness ==
    /\ draggable.mounted /\ ~draggable.held
    /\ draggable.down # << >>
    /\ draggable.position # Point(InitialCoord, InitialCoord)
    /\ draggable.position # Minus(draggable.pointer, draggable.down[1])

====
